---------------------------- MODULE Spec2Model ----------------------------
(***************************************************************************)
(* Lifecycle, configuration and event layer of libx11vnc                   *)
(* (src/src/libx11vnc.c): one x11vnc_server handle, used by several        *)
(* threads, in front of the process-global legacy engine.                  *)
(*                                                                         *)
(* Granularity: every API function is split at its pthread_mutex_unlock    *)
(* calls.  A critical section (lock, body, unlock) is one step, taken only *)
(* when the mutex is free; whatever a function does after unlocking        *)
(* (emit_event, the engine call of run(), the join of stop()) is a step of *)
(* its own, so that other threads interleave there.                        *)
(*                                                                         *)
(* Specifications: Spec and LiveSpec, the lifecycle and the event sink     *)
(* under two threads; QuerySpec, ConfigSpec and DestroySpec, one calling   *)
(* thread with the queries, with the stored configuration, and with the    *)
(* engine's globals up to destroy; StatsSpec, the cached statistics as the *)
(* clock advances (elsewhere the clock stands still); EventSpec, both      *)
(* event sinks, the advanced operations and callbacks that call back into  *)
(* the handle (a typed callback runs with the mutex held, so there the     *)
(* critical section is more than one step); TranslateSpec, configure and   *)
(* start_configured over many configurations; WholeSpec, every operation   *)
(* short of destroy; SinkSpec, one caller with both sinks through destroy. *)
(* API functions are called with a valid handle and non-null pointers;     *)
(* strdup does not fail.                                                   *)
(***************************************************************************)
EXTENDS Integers, Sequences, FiniteSets, TLC

\* ------------------------------------------------------------- bounds ----
\* The caller's threads that use the handle.
Threads == {1, 2}
\* x11vnc_main_legacy returns a code in 0..MaxResult.
MaxResult == 1
\* The engine serves 0..MaxClients connections.
MaxClients == 1
\* x11vnc_server_get_clients is given room for 1..MaxCapacity entries.
MaxCapacity == 1
\* The clock is observed every TickMs milliseconds, MaxTicks times.
TickMs == 500
MaxTicks == 6

\* ---------------------------------------------------- program constants --
X11VNC_SUCCESS == 0
X11VNC_ERROR_INVALID_ARG == -1
X11VNC_ERROR_NO_MEMORY == -2
X11VNC_ERROR_ALREADY_RUNNING == -3
X11VNC_ERROR_NOT_RUNNING == -4
DefaultPort == 5900
DefaultPollInterval == 30

X11VNC_EVENT_STARTED == "X11VNC_EVENT_STARTED"
X11VNC_EVENT_INPUT_RECEIVED == "X11VNC_EVENT_INPUT_RECEIVED"
X11VNC_EVENT_CLIPBOARD_CHANGED == "X11VNC_EVENT_CLIPBOARD_CHANGED"
\* What x11vnc_server_process_events reports on a running handle.
EventsProcessed == 3

\* get_timestamp_ms() when create() runs: the monotonic clock of a system
\* that has been up for two seconds.
TimeAtCreate == 2000
\* The age in ms beyond which the cached statistics are recomputed.
StatsMaxAge == 1000

\* A null pointer (char*, function pointer or void*).
NULL == "(null)"
\* server->argv == NULL; the code never stores an empty non-null vector.
NullArgv == << >>

\* --------------------------------------------------------- conversions ---
Digit(d) ==
    CASE d = 0 -> "0" [] d = 1 -> "1" [] d = 2 -> "2" [] d = 3 -> "3"
      [] d = 4 -> "4" [] d = 5 -> "5" [] d = 6 -> "6" [] d = 7 -> "7"
      [] d = 8 -> "8" [] d = 9 -> "9"

RECURSIVE DecStr(_)
DecStr(n) ==
    IF n < 10 THEN Digit(n) ELSE DecStr(n \div 10) \o Digit(n % 10)

\* snprintf(buf, 16, "%d", n): an int never needs more than 11 characters.
FormatInt(n) ==
    IF n < 0 THEN "-" \o DecStr(0 - n) ELSE DecStr(n)

\* ------------------------------------------------------- configuration ---
\* memset(config, 0, ...): what calloc leaves in server->config.
ZeroConfig ==
    [ display |-> NULL, auth_file |-> NULL, port |-> 0,
      localhost_only |-> FALSE, ipv6 |-> FALSE,
      password |-> NULL, password_file |-> NULL, view_only |-> FALSE,
      allow_hosts |-> NULL, shared |-> FALSE, forever |-> FALSE,
      once |-> FALSE, poll_interval_ms |-> 0, use_shm |-> FALSE,
      use_xdamage |-> FALSE, wireframe |-> FALSE, show_cursor |-> FALSE,
      accept_bell |-> FALSE, accept_clipboard |-> FALSE,
      geometry |-> NULL, clip |-> NULL ]

x11vnc_config_init_defaults ==
    [ ZeroConfig EXCEPT
        !.display = ":0", !.port = DefaultPort, !.shared = TRUE,
        !.poll_interval_ms = DefaultPollInterval, !.use_shm = TRUE,
        !.use_xdamage = TRUE, !.show_cursor = TRUE, !.accept_bell = TRUE,
        !.accept_clipboard = TRUE ]

\* The configurations callers pass in: the defaults, and two that reach the
\* other branches of the translation.
OnceConfig ==
    [ x11vnc_config_init_defaults EXCEPT
        !.port = 5901, !.view_only = TRUE, !.once = TRUE ]

SecureConfig ==
    [ x11vnc_config_init_defaults EXCEPT
        !.display = NULL, !.auth_file = "/tmp/xauth", !.localhost_only = TRUE,
        !.password = "secret", !.password_file = "/tmp/pw", !.shared = FALSE,
        !.poll_interval_ms = 50, !.use_shm = FALSE, !.geometry = "800x600" ]

Configs == { x11vnc_config_init_defaults, OnceConfig, SecureConfig }

\* Configurations given to x11vnc_server_update_config: one of those above,
\* and three that differ from one of them in a single respect.
HotConfig == [ OnceConfig EXCEPT !.view_only = FALSE ]
Ipv6Config == [ OnceConfig EXCEPT !.ipv6 = TRUE ]
EmptyDisplayConfig == [ SecureConfig EXCEPT !.display = "" ]

UpdateConfigs ==
    { OnceConfig, HotConfig, Ipv6Config, EmptyDisplayConfig }

\* A configuration with every optional entry of the translation present.
FullConfig ==
    [ x11vnc_config_init_defaults EXCEPT
        !.auth_file = "/tmp/xauth", !.port = 5901, !.localhost_only = TRUE,
        !.ipv6 = TRUE, !.password = "secret", !.view_only = TRUE,
        !.allow_hosts = "10.0.0.2", !.forever = TRUE, !.once = TRUE,
        !.poll_interval_ms = 50, !.use_shm = FALSE, !.use_xdamage = FALSE,
        !.wireframe = TRUE, !.show_cursor = FALSE, !.accept_bell = FALSE,
        !.geometry = "800x600", !.clip = "640x480+0+0" ]

\* c with one field set to a value that init_defaults does not give it.
Changes(c) ==
    << [c EXCEPT !.display = NULL],
       [c EXCEPT !.auth_file = "/tmp/xauth"],
       [c EXCEPT !.port = 5901],
       [c EXCEPT !.port = 0],
       [c EXCEPT !.port = -1],
       [c EXCEPT !.localhost_only = TRUE],
       [c EXCEPT !.ipv6 = TRUE],
       [c EXCEPT !.password = "secret"],
       [c EXCEPT !.password_file = "/tmp/pw"],
       [c EXCEPT !.view_only = TRUE],
       [c EXCEPT !.allow_hosts = "10.0.0.2"],
       [c EXCEPT !.shared = FALSE],
       [c EXCEPT !.forever = TRUE],
       [c EXCEPT !.once = TRUE],
       [c EXCEPT !.poll_interval_ms = 50],
       [c EXCEPT !.poll_interval_ms = 0],
       [c EXCEPT !.use_shm = FALSE],
       [c EXCEPT !.use_xdamage = FALSE],
       [c EXCEPT !.wireframe = TRUE],
       [c EXCEPT !.show_cursor = FALSE],
       [c EXCEPT !.accept_bell = FALSE],
       [c EXCEPT !.accept_clipboard = FALSE],
       [c EXCEPT !.geometry = "800x600"],
       [c EXCEPT !.clip = "640x480+0+0"] >>

\* Configurations given to the translation: the defaults with up to two
\* fields changed, and those above.
TranslateConfigs ==
    LET d == x11vnc_config_init_defaults
        one == { Changes(d)[i] : i \in DOMAIN Changes(d) }
    IN { Changes(c)[j] : c \in one, j \in DOMAIN Changes(d) }
       \cup one \cup Configs \cup { FullConfig }

\* The char* fields of x11vnc_simple_config_t.
StringFields ==
    { "display", "auth_file", "password", "password_file", "allow_hosts",
      "geometry", "clip" }

\* calloc: the cached statistics of a new handle.
ZeroStats == [current_clients |-> 0, max_clients_reached |-> 0]

\* The engine's globals in a process where it has not run yet.
FreshGlobals ==
    [client_count |-> 0, got_rfbport |-> 0, use_dpy |-> NULL,
     auth_file |-> NULL, view_only |-> 0, shared |-> 0, allow_list |-> NULL]

\* Variant: the geometry string is not duplicated into the copy.
config_copy_strings_DropsGeometry(src) == [ src EXCEPT !.geometry = NULL ]

\* config_copy_strings: struct assignment, then every string is strdup'ed.
\* Strings are values here, so the copy is field by field.
config_copy_strings(src) ==
    [ src EXCEPT
        !.display = IF src.display # NULL THEN src.display ELSE NULL,
        !.auth_file = IF src.auth_file # NULL THEN src.auth_file ELSE NULL,
        !.password = IF src.password # NULL THEN src.password ELSE NULL,
        !.password_file =
            IF src.password_file # NULL THEN src.password_file ELSE NULL,
        !.allow_hosts = IF src.allow_hosts # NULL THEN src.allow_hosts ELSE NULL,
        !.geometry = IF src.geometry # NULL THEN src.geometry ELSE NULL,
        !.clip = IF src.clip # NULL THEN src.clip ELSE NULL ]

\* config_copy_strings, the pointers: where each char* of dest points after
\* the call.  The struct assignment leaves it pointing at the string src
\* points to ("src"); a strdup repoints it at a block of dest's own ("dest").
config_copy_pointers(src) ==
    LET assigned == [f \in StringFields |->
                       IF src[f] # NULL THEN "src" ELSE NULL]
        strdup(f) == IF src[f] # NULL THEN "dest" ELSE NULL
    IN [ assigned EXCEPT
           !.display = strdup("display"),
           !.auth_file = strdup("auth_file"),
           !.password = strdup("password"),
           !.password_file = strdup("password_file"),
           !.allow_hosts = strdup("allow_hosts"),
           !.geometry = strdup("geometry"),
           !.clip = strdup("clip") ]

Flag(cond, name) == IF cond THEN << name >> ELSE << >>
FlagValue(cond, name, value) == IF cond THEN << name, value >> ELSE << >>

\* Variant: the IPv6 flag is written before the localhost flag.
config_args_Ipv6First(c) ==
    << "x11vnc" >>
    \o FlagValue(c.display # NULL, "-display", c.display)
    \o FlagValue(c.auth_file # NULL, "-auth", c.auth_file)
    \o FlagValue(c.port # DefaultPort /\ c.port > 0, "-rfbport", FormatInt(c.port))
    \o Flag(c.ipv6, "-6")
    \o Flag(c.localhost_only, "-localhost")
    \o ( IF c.password # NULL THEN << "-passwd", c.password >>
         ELSE IF c.password_file # NULL THEN << "-passwdfile", c.password_file >>
         ELSE << "-nopw" >> )
    \o Flag(c.view_only, "-viewonly")
    \o FlagValue(c.allow_hosts # NULL, "-allow", c.allow_hosts)
    \o ( IF c.shared THEN << "-shared" >> ELSE << "-noshared" >> )
    \o Flag(c.forever, "-forever")
    \o Flag(c.once, "-once")
    \o FlagValue(c.poll_interval_ms # DefaultPollInterval, "-wait",
                 FormatInt(c.poll_interval_ms))
    \o Flag(~c.use_shm, "-noshm")
    \o Flag(~c.use_xdamage, "-noxdamage")
    \o Flag(c.wireframe, "-wireframe")
    \o Flag(~c.show_cursor, "-nocursor")
    \o Flag(~c.accept_bell, "-nobell")
    \o FlagValue(c.geometry # NULL, "-geometry", c.geometry)
    \o FlagValue(c.clip # NULL, "-clip", c.clip)

\* Variant: the password file is passed on even when a password is given.
config_args_BothPasswords(c) ==
    << "x11vnc" >>
    \o FlagValue(c.display # NULL, "-display", c.display)
    \o FlagValue(c.auth_file # NULL, "-auth", c.auth_file)
    \o FlagValue(c.port # DefaultPort /\ c.port > 0, "-rfbport", FormatInt(c.port))
    \o Flag(c.localhost_only, "-localhost")
    \o Flag(c.ipv6, "-6")
    \o FlagValue(c.password # NULL, "-passwd", c.password)
    \o FlagValue(c.password_file # NULL, "-passwdfile", c.password_file)
    \o Flag(c.password = NULL /\ c.password_file = NULL, "-nopw")
    \o Flag(c.view_only, "-viewonly")
    \o FlagValue(c.allow_hosts # NULL, "-allow", c.allow_hosts)
    \o ( IF c.shared THEN << "-shared" >> ELSE << "-noshared" >> )
    \o Flag(c.forever, "-forever")
    \o Flag(c.once, "-once")
    \o FlagValue(c.poll_interval_ms # DefaultPollInterval, "-wait",
                 FormatInt(c.poll_interval_ms))
    \o Flag(~c.use_shm, "-noshm")
    \o Flag(~c.use_xdamage, "-noxdamage")
    \o Flag(c.wireframe, "-wireframe")
    \o Flag(~c.show_cursor, "-nocursor")
    \o Flag(~c.accept_bell, "-nobell")
    \o FlagValue(c.geometry # NULL, "-geometry", c.geometry)
    \o FlagValue(c.clip # NULL, "-clip", c.clip)

\* Variant: "-nopw" is written whether or not a password is given.
config_args_NopwAlways(c) ==
    << "x11vnc" >>
    \o FlagValue(c.display # NULL, "-display", c.display)
    \o FlagValue(c.auth_file # NULL, "-auth", c.auth_file)
    \o FlagValue(c.port # DefaultPort /\ c.port > 0, "-rfbport", FormatInt(c.port))
    \o Flag(c.localhost_only, "-localhost")
    \o Flag(c.ipv6, "-6")
    \o ( IF c.password # NULL THEN << "-passwd", c.password >>
         ELSE IF c.password_file # NULL THEN << "-passwdfile", c.password_file >>
         ELSE << >> )
    \o << "-nopw" >>
    \o Flag(c.view_only, "-viewonly")
    \o FlagValue(c.allow_hosts # NULL, "-allow", c.allow_hosts)
    \o ( IF c.shared THEN << "-shared" >> ELSE << "-noshared" >> )
    \o Flag(c.forever, "-forever")
    \o Flag(c.once, "-once")
    \o FlagValue(c.poll_interval_ms # DefaultPollInterval, "-wait",
                 FormatInt(c.poll_interval_ms))
    \o Flag(~c.use_shm, "-noshm")
    \o Flag(~c.use_xdamage, "-noxdamage")
    \o Flag(c.wireframe, "-wireframe")
    \o Flag(~c.show_cursor, "-nocursor")
    \o Flag(~c.accept_bell, "-nobell")
    \o FlagValue(c.geometry # NULL, "-geometry", c.geometry)
    \o FlagValue(c.clip # NULL, "-clip", c.clip)

\* config_to_argv: the entries written for the fields of a configuration.
config_args(c) ==
    << "x11vnc" >>
    \o FlagValue(c.display # NULL, "-display", c.display)
    \o FlagValue(c.auth_file # NULL, "-auth", c.auth_file)
    \o FlagValue(c.port # DefaultPort /\ c.port > 0, "-rfbport", FormatInt(c.port))
    \o Flag(c.localhost_only, "-localhost")
    \o Flag(c.ipv6, "-6")
    \o ( IF c.password # NULL THEN << "-passwd", c.password >>
         ELSE IF c.password_file # NULL THEN << "-passwdfile", c.password_file >>
         ELSE << "-nopw" >> )
    \o Flag(c.view_only, "-viewonly")
    \o FlagValue(c.allow_hosts # NULL, "-allow", c.allow_hosts)
    \o ( IF c.shared THEN << "-shared" >> ELSE << "-noshared" >> )
    \o Flag(c.forever, "-forever")
    \o Flag(c.once, "-once")
    \o FlagValue(c.poll_interval_ms # DefaultPollInterval, "-wait",
                 FormatInt(c.poll_interval_ms))
    \o Flag(~c.use_shm, "-noshm")
    \o Flag(~c.use_xdamage, "-noxdamage")
    \o Flag(c.wireframe, "-wireframe")
    \o Flag(~c.show_cursor, "-nocursor")
    \o Flag(~c.accept_bell, "-nobell")
    \o FlagValue(c.geometry # NULL, "-geometry", c.geometry)
    \o FlagValue(c.clip # NULL, "-clip", c.clip)

\* config_to_argv: the slots of the array it allocates with calloc.
max_args == 50

\* Variant: the trailing quiet flag is left out.
config_to_argv_NoQuiet(c) == config_args(c)

\* config_to_argv: the argument vector returned, "-quiet" always last.
config_to_argv(c) == config_args(c) \o << "-quiet" >>

\* ------------------------------------------------------------- inputs ----
\* (argc, argv) pairs given to x11vnc_server_start; null marks argv == NULL.
StartInputs ==
    { [argc |-> 0, null |-> TRUE, argv |-> << >>],
      [argc |-> 2, null |-> TRUE, argv |-> << >>],
      [argc |-> 2, null |-> FALSE, argv |-> << "x11vnc", "-viewonly" >>],
      [argc |-> 3, null |-> FALSE, argv |-> << "x11vnc", "-rfbport", "5901" >>] }

\* (callback, user_data) pairs given to x11vnc_server_set_event_callback.
Registrations ==
    { [cb |-> NULL, ud |-> NULL],
      [cb |-> "on_event_a", ud |-> "ctx_a"],
      [cb |-> "on_event_b", ud |-> "ctx_b"] }

\* What x11vnc_main_legacy may return.
ResultCodes == 0..MaxResult

\* The ports the engine may resolve its listening port to.
EnginePorts == { 5901 }

\* -------------------------------------------------------------- state ----
VARIABLES
    running, configured, config_valid,   \* struct x11vnc_server: state flags
    argc, argv,                          \* argument storage
    config,                              \* configuration storage
    event_callback, event_user_data,     \* simple event sink
    server_thread,                       \* worker thread id (0: none)
    should_exit,                         \* exit flag for the main loop
    mutex,                               \* 0: free, else the holding thread
    shut_down,                           \* the engine's global shutdown flag
    pc,                                  \* where each thread is
    result,                              \* run(): local "result" per thread
    cbv,                                 \* emit_event: callback value loaded
    last,                                \* the call that just returned
    cached_stats,                        \* struct x11vnc_server: statistics
    saved_state,                         \* global_state_backup_t
    client_count, got_rfbport,           \* the engine's globals that the
    use_dpy, auth_file,                  \*   handle shadows
    view_only, shared, allow_list,       \* the engine's other globals
    heap,                                \* live blocks the handle points to
    at_create,                           \* the globals when create() ran
    advanced_event_callback,             \* typed event sink
    advanced_event_user_data,
    bandwidth_limit_kbps,                \* struct x11vnc_server: tuning
    stats_last_update,                   \* when cached_stats was computed
    clock,                               \* CLOCK_MONOTONIC, in ms
    reentry                              \* a callback's call into the API

\* The fields behind the advanced operations.
advanced == << advanced_event_callback, advanced_event_user_data,
               bandwidth_limit_kbps, stats_last_update >>
handle == << running, configured, config_valid, argc, argv, config,
             event_callback, event_user_data, server_thread, should_exit,
             cached_stats, saved_state, advanced_event_callback,
             advanced_event_user_data, bandwidth_limit_kbps,
             stats_last_update >>
\* The engine's globals, shut_down apart.
globals == << client_count, got_rfbport, use_dpy, auth_file,
              view_only, shared, allow_list >>
vars == << running, configured, config_valid, argc, argv, config,
           event_callback, event_user_data, server_thread, should_exit,
           mutex, shut_down, pc, result, cbv, last,
           cached_stats, saved_state, client_count, got_rfbport, use_dpy,
           auth_file, view_only, shared, allow_list, heap, at_create,
           advanced_event_callback, advanced_event_user_data,
           bandwidth_limit_kbps, stats_last_update, clock, reentry >>

\* last: the call that returned in the step just taken (NoCall after any
\* other step): the operation, its return value (a bool as 0/1, 0 for a
\* void function) and the events its callbacks received during the call.
NoCall == [op |-> "none", ret |-> 0, ev |-> << >>, out |-> NULL]
Returned(o, r, e) == [op |-> o, ret |-> r, ev |-> e, out |-> NULL]
\* The same for a call that wrote x to the storage its caller supplied.
ReturnedOut(o, r, x) == [op |-> o, ret |-> r, ev |-> << >>, out |-> x]

\* The blocks on the heap that the handle's pointers refer to and that are
\* still allocated: the handle itself, the vector server->argv points to,
\* and the string each char* of server->config points to.
Blocks(av, cfg) ==
    {"server"}
    \cup (IF av # NullArgv THEN {"argv"} ELSE {})
    \cup {f \in StringFields : cfg[f] # NULL}

\* The four globals that the handle shadows.
Shadowed ==
    [client_count |-> client_count, got_rfbport |-> got_rfbport,
     use_dpy |-> use_dpy, auth_file |-> auth_file]

\* save_global_state: the values, the strings as copies of their own.
save_global_state ==
    [saved_client_count |-> client_count,
     saved_got_rfbport |-> got_rfbport,
     saved_use_dpy |-> IF use_dpy # NULL THEN use_dpy ELSE NULL,
     saved_auth_file |-> IF auth_file # NULL THEN auth_file ELSE NULL]

\* x11vnc_server_create: calloc, mutex init, the globals saved; the engine
\* has not been asked to shut down.
Created ==
    /\ running = FALSE /\ configured = FALSE /\ config_valid = FALSE
    /\ argc = 0 /\ argv = NullArgv
    /\ config = ZeroConfig
    /\ event_callback = NULL /\ event_user_data = NULL
    /\ server_thread = 0
    /\ should_exit = FALSE
    /\ mutex = 0
    /\ shut_down = 0
    /\ pc = [t \in Threads |-> "idle"]
    /\ result = [t \in Threads |-> 0]
    /\ cbv = [t \in Threads |-> NULL]
    /\ last = NoCall
    /\ cached_stats = ZeroStats
    /\ saved_state = save_global_state
    /\ heap = Blocks(NullArgv, ZeroConfig)
    /\ at_create = Shadowed
    /\ advanced_event_callback = NULL /\ advanced_event_user_data = NULL
    /\ bandwidth_limit_kbps = 0
    /\ stats_last_update = 0
    /\ clock = TimeAtCreate
    /\ reentry = [t \in Threads |-> "none"]

\* create() in a process whose engine has not run.
Init ==
    /\ client_count = FreshGlobals.client_count
    /\ got_rfbport = FreshGlobals.got_rfbport
    /\ use_dpy = FreshGlobals.use_dpy
    /\ auth_file = FreshGlobals.auth_file
    /\ view_only = FreshGlobals.view_only
    /\ shared = FreshGlobals.shared
    /\ allow_list = FreshGlobals.allow_list
    /\ Created


\* ---------------------------------------------------------- operations ---
\* pthread_mutex_lock at the head of an API function called by an idle
\* thread: the mutex is free, and the caller holds it for this step.
Lock(t) ==
    /\ pc[t] = "idle"
    /\ mutex = 0

\* Variant: return r without the unlock.
Return_KeepsMutex(t, o, r, e) ==
    /\ mutex' = t
    /\ pc' = [pc EXCEPT ![t] = "idle"]
    /\ last' = Returned(o, r, e)

\* pthread_mutex_unlock followed by return r.
Return(t, o, r, e) ==
    /\ mutex' = 0
    /\ pc' = [pc EXCEPT ![t] = "idle"]
    /\ last' = Returned(o, r, e)

\* Variant: the function goes on at next with the mutex still locked.
Unlock_KeepsMutex(t, next) ==
    /\ mutex' = t
    /\ pc' = [pc EXCEPT ![t] = next]
    /\ last' = NoCall

\* pthread_mutex_unlock, the function going on at next without the lock.
Unlock(t, next) ==
    /\ mutex' = 0
    /\ pc' = [pc EXCEPT ![t] = next]
    /\ last' = NoCall

copy_argv(n, v) == [i \in 1..n |-> v[i]]

\* Variant: the running check is left out.
start_NoRunningCheck(in, oom) ==
    IF in.argc > 0 /\ ~in.null
    THEN [ret |-> X11VNC_SUCCESS, argc |-> in.argc,
          argv |-> copy_argv(in.argc, in.argv), should_exit |-> FALSE,
          running |-> TRUE]
    ELSE [ret |-> X11VNC_SUCCESS, argc |-> 1, argv |-> << "x11vnc" >>,
          should_exit |-> FALSE, running |-> TRUE]

\* Variant: the default vector is stored without clearing should_exit.
start_KeepsShouldExit(in, oom) ==
    IF running
    THEN [ret |-> X11VNC_ERROR_ALREADY_RUNNING, argc |-> argc, argv |-> argv,
          should_exit |-> should_exit, running |-> running]
    ELSE IF in.argc > 0 /\ ~in.null
    THEN IF oom
         THEN [ret |-> X11VNC_ERROR_NO_MEMORY, argc |-> in.argc,
               argv |-> NullArgv, should_exit |-> should_exit,
               running |-> running]
         ELSE [ret |-> X11VNC_SUCCESS, argc |-> in.argc,
               argv |-> copy_argv(in.argc, in.argv), should_exit |-> FALSE,
               running |-> TRUE]
    ELSE IF oom
         THEN [ret |-> X11VNC_ERROR_NO_MEMORY, argc |-> 1, argv |-> NullArgv,
               should_exit |-> should_exit, running |-> running]
         ELSE [ret |-> X11VNC_SUCCESS, argc |-> 1, argv |-> << "x11vnc" >>,
               should_exit |-> should_exit, running |-> TRUE]

\* x11vnc_server_start, between lock and unlock: the fields it leaves and
\* its return value.  oom: the allocation of the vector fails.
x11vnc_server_start(in, oom) ==
    IF running
    THEN [ret |-> X11VNC_ERROR_ALREADY_RUNNING, argc |-> argc, argv |-> argv,
          should_exit |-> should_exit, running |-> running]
    ELSE IF in.argc > 0 /\ ~in.null
    THEN IF oom
         THEN [ret |-> X11VNC_ERROR_NO_MEMORY, argc |-> in.argc,
               argv |-> NullArgv, should_exit |-> should_exit,
               running |-> running]
         ELSE [ret |-> X11VNC_SUCCESS, argc |-> in.argc,
               argv |-> copy_argv(in.argc, in.argv), should_exit |-> FALSE,
               running |-> TRUE]
    ELSE IF oom
         THEN [ret |-> X11VNC_ERROR_NO_MEMORY, argc |-> 1, argv |-> NullArgv,
               should_exit |-> should_exit, running |-> running]
         ELSE [ret |-> X11VNC_SUCCESS, argc |-> 1, argv |-> << "x11vnc" >>,
               should_exit |-> FALSE, running |-> TRUE]

Start(t) ==
    /\ Lock(t)
    /\ \E in \in StartInputs, oom \in BOOLEAN :
         LET r == x11vnc_server_start(in, oom) IN
           /\ argc' = r.argc /\ argv' = r.argv
           /\ should_exit' = r.should_exit /\ running' = r.running
           /\ heap' = Blocks(r.argv, config)
           /\ Return(t, "start", r.ret, << >>)
    /\ UNCHANGED << configured, config_valid, config, event_callback,
                    event_user_data, server_thread, shut_down, result, cbv,
                    cached_stats, saved_state, globals, at_create, advanced,
                    clock, reentry >>

\* Variant: the running check is left out.
run_NoRunningCheck(t) == Unlock(t, "run_engine")

\* x11vnc_server_run up to the engine call: the running check under the
\* lock; apply_server_context does nothing.
x11vnc_server_run(t) ==
    IF ~running
    THEN Return(t, "run", X11VNC_ERROR_NOT_RUNNING, << >>)
    ELSE Unlock(t, "run_engine")

Run(t) ==
    /\ Lock(t)
    /\ x11vnc_server_run(t)
    /\ UNCHANGED << handle, shut_down, result, cbv, globals, at_create, heap,
                    clock, reentry >>

\* x11vnc_main_legacy returns, by itself or because it saw shut_down.
EngineReturn(t) ==
    /\ pc[t] = "run_engine"
    /\ \E r \in ResultCodes : result' = [result EXCEPT ![t] = r]
    /\ pc' = [pc EXCEPT ![t] = "run_returned"]
    /\ last' = NoCall
    /\ UNCHANGED << handle, mutex, shut_down, cbv, globals, at_create, heap,
                    clock, reentry >>

\* Variant: run() returns success whatever the engine returned.
RunFinish_DropsResult(t) ==
    /\ pc[t] = "run_returned"
    /\ mutex = 0
    /\ running' = FALSE
    /\ Return(t, "run", X11VNC_SUCCESS, << >>)
    /\ result' = [result EXCEPT ![t] = 0]
    /\ UNCHANGED << configured, config_valid, argc, argv, config,
                    event_callback, event_user_data, server_thread,
                    should_exit, shut_down, cbv, cached_stats, saved_state,
                    globals, at_create, heap, advanced, clock, reentry >>

\* After the engine returned: lock, "Mark as stopped", unlock, return result.
RunFinish(t) ==
    /\ pc[t] = "run_returned"
    /\ mutex = 0
    /\ running' = FALSE
    /\ Return(t, "run", result[t], << >>)
    /\ result' = [result EXCEPT ![t] = 0]
    /\ UNCHANGED << configured, config_valid, argc, argv, config,
                    event_callback, event_user_data, server_thread,
                    should_exit, shut_down, cbv, cached_stats, saved_state,
                    globals, at_create, heap, advanced, clock, reentry >>

\* The fields x11vnc_server_stop reads and writes, and the engine's flag.
StopFields ==
    [running |-> running, should_exit |-> should_exit,
     shut_down |-> shut_down, server_thread |-> server_thread]

\* Variant: the engine's shutdown flag is not set.
stop_NoEngineSignal(h) ==
    IF ~h.running THEN h ELSE [h EXCEPT !.should_exit = TRUE]

\* Variant: the running check is left out.
stop_NoRunningCheck(h) == [h EXCEPT !.should_exit = TRUE, !.shut_down = 1]

\* x11vnc_server_stop between lock and unlock, on fields h.
x11vnc_server_stop(h) ==
    IF ~h.running
    THEN h
    ELSE [h EXCEPT !.should_exit = TRUE, !.shut_down = 1]

\* x11vnc_server_stop after the unlock: pthread_join of the worker thread,
\* if there is one.
stop_join(h) ==
    IF h.server_thread # 0 THEN [h EXCEPT !.server_thread = 0] ELSE h

Stop(t) ==
    /\ Lock(t)
    /\ LET r == x11vnc_server_stop(StopFields) IN
         /\ running' = r.running
         /\ should_exit' = r.should_exit
         /\ shut_down' = r.shut_down
         /\ server_thread' = r.server_thread
    /\ IF ~running THEN Return(t, "stop", 0, << >>)
                    ELSE Unlock(t, "stop_join")
    /\ UNCHANGED << configured, config_valid, argc, argv, config,
                    event_callback, event_user_data, result, cbv,
                    cached_stats, saved_state, globals, at_create, heap,
                    advanced, clock, reentry >>

StopJoin(t) ==
    /\ pc[t] = "stop_join"
    /\ LET r == stop_join(StopFields) IN
         /\ running' = r.running
         /\ should_exit' = r.should_exit
         /\ shut_down' = r.shut_down
         /\ server_thread' = r.server_thread
    /\ pc' = [pc EXCEPT ![t] = "idle"]
    /\ last' = Returned("stop", 0, << >>)
    /\ UNCHANGED << configured, config_valid, argc, argv, config,
                    event_callback, event_user_data, mutex, result, cbv,
                    cached_stats, saved_state, globals, at_create, heap,
                    advanced, clock, reentry >>

x11vnc_server_is_running == IF running THEN 1 ELSE 0

IsRunning(t) ==
    /\ Lock(t)
    /\ Return(t, "is_running", x11vnc_server_is_running, << >>)
    /\ UNCHANGED << handle, shut_down, result, cbv, globals, at_create, heap,
                    clock, reentry >>

\* Variant: the running check is left out.
configure_NoRunningCheck(c) ==
    [ret |-> X11VNC_SUCCESS, config |-> config_copy_strings(c),
     config_valid |-> TRUE, configured |-> TRUE]

\* x11vnc_server_configure between lock and unlock.
x11vnc_server_configure(c) ==
    IF running
    THEN [ret |-> X11VNC_ERROR_ALREADY_RUNNING, config |-> config,
          config_valid |-> config_valid, configured |-> configured]
    ELSE [ret |-> X11VNC_SUCCESS, config |-> config_copy_strings(c),
          config_valid |-> TRUE, configured |-> TRUE]

\* configure() called with a configuration out of S.
ConfigureFrom(t, S) ==
    /\ Lock(t)
    /\ \E c \in S :
         LET r == x11vnc_server_configure(c) IN
           /\ config' = r.config
           /\ config_valid' = r.config_valid
           /\ configured' = r.configured
           /\ heap' = Blocks(argv, r.config)
           /\ IF r.ret = X11VNC_SUCCESS
              THEN Unlock(t, "configure_emit")
              ELSE Return(t, "configure", r.ret, << >>)
    /\ UNCHANGED << running, argc, argv, event_callback, event_user_data,
                    server_thread, should_exit, shut_down, result, cbv,
                    cached_stats, saved_state, globals, at_create, advanced,
                    clock, reentry >>

Configure(t) ==
    /\ pc[t] = "idle"
    /\ ConfigureFrom(t, Configs)
ConfigureOnce(t) ==
    /\ pc[t] = "idle"
    /\ ConfigureFrom(t, { OnceConfig })
ConfigureTranslated(t) ==
    /\ pc[t] = "idle"
    /\ ConfigureFrom(t, TranslateConfigs)

\* Variant: the configured check is left out.
start_configured_NoConfiguredCheck(oom) ==
    IF running
    THEN [ret |-> X11VNC_ERROR_ALREADY_RUNNING, argc |-> argc, argv |-> argv,
          should_exit |-> should_exit, running |-> running]
    ELSE IF oom
    THEN [ret |-> X11VNC_ERROR_NO_MEMORY, argc |-> argc, argv |-> argv,
          should_exit |-> should_exit, running |-> running]
    ELSE [ret |-> X11VNC_SUCCESS, argc |-> Len(config_to_argv(config)),
          argv |-> config_to_argv(config), should_exit |-> FALSE,
          running |-> TRUE]

\* Variant: the running check comes before the configured check.
start_configured_RunningFirst(oom) ==
    LET same(r) == [ret |-> r, argc |-> argc, argv |-> argv,
                    should_exit |-> should_exit, running |-> running]
    IN
    IF running THEN same(X11VNC_ERROR_ALREADY_RUNNING)
    ELSE IF ~configured \/ ~config_valid THEN same(X11VNC_ERROR_INVALID_ARG)
    ELSE IF oom THEN same(X11VNC_ERROR_NO_MEMORY)
    ELSE [ret |-> X11VNC_SUCCESS, argc |-> Len(config_to_argv(config)),
          argv |-> config_to_argv(config), should_exit |-> FALSE,
          running |-> TRUE]

\* Variant: the running check is left out.
start_configured_NoRunningCheck(oom) ==
    LET same(r) == [ret |-> r, argc |-> argc, argv |-> argv,
                    should_exit |-> should_exit, running |-> running]
    IN
    IF ~configured \/ ~config_valid THEN same(X11VNC_ERROR_INVALID_ARG)
    ELSE IF oom THEN same(X11VNC_ERROR_NO_MEMORY)
    ELSE [ret |-> X11VNC_SUCCESS, argc |-> Len(config_to_argv(config)),
          argv |-> config_to_argv(config), should_exit |-> FALSE,
          running |-> TRUE]

\* x11vnc_server_start_configured between lock and unlock.  oom: the calloc
\* of config_to_argv fails.
x11vnc_server_start_configured(oom) ==
    LET same(r) == [ret |-> r, argc |-> argc, argv |-> argv,
                    should_exit |-> should_exit, running |-> running]
    IN
    IF ~configured \/ ~config_valid THEN same(X11VNC_ERROR_INVALID_ARG)
    ELSE IF running THEN same(X11VNC_ERROR_ALREADY_RUNNING)
    ELSE IF oom THEN same(X11VNC_ERROR_NO_MEMORY)
    ELSE [ret |-> X11VNC_SUCCESS, argc |-> Len(config_to_argv(config)),
          argv |-> config_to_argv(config), should_exit |-> FALSE,
          running |-> TRUE]

StartConfigured(t) ==
    /\ Lock(t)
    /\ \E oom \in BOOLEAN :
         LET r == x11vnc_server_start_configured(oom) IN
           /\ argc' = r.argc /\ argv' = r.argv
           /\ should_exit' = r.should_exit /\ running' = r.running
           /\ heap' = Blocks(r.argv, config)
           /\ IF r.ret = X11VNC_SUCCESS
              THEN Unlock(t, "start_configured_emit")
              ELSE Return(t, "start_configured", r.ret, << >>)
    /\ UNCHANGED << configured, config_valid, config, event_callback,
                    event_user_data, server_thread, shut_down, result, cbv,
                    cached_stats, saved_state, globals, at_create, advanced,
                    clock, reentry >>

\* The emit_event call that ends configure and start_configured.
EmitOp(p) ==
    IF p \in {"configure_emit", "configure_call"} THEN "configure"
    ELSE "start_configured"
\* Variant: configure announces itself with the message of start_configured.
EmitMessage_AlwaysStarted(p) == "Server started with configuration"
EmitMessage(p) ==
    IF p \in {"configure_emit", "configure_call"} THEN "Server configured"
    ELSE "Server started with configuration"
\* Variant: start_configured announces itself as Stopped.
EmitType_Stopped(p) ==
    IF p \in {"configure_emit", "configure_call"} THEN X11VNC_EVENT_STARTED
    ELSE "X11VNC_EVENT_STOPPED"
EmitType(p) == X11VNC_EVENT_STARTED

\* emit_event, first read of server->event_callback (without the lock):
\* nothing is delivered when it is null.
EmitCheck(t) ==
    /\ pc[t] \in {"configure_emit", "start_configured_emit"}
    /\ IF event_callback = NULL
       THEN /\ pc' = [pc EXCEPT ![t] = "idle"]
            /\ last' = Returned(EmitOp(pc[t]), X11VNC_SUCCESS, << >>)
            /\ cbv' = cbv
       ELSE /\ pc' = [pc EXCEPT ![t] =
                        IF pc[t] = "configure_emit" THEN "configure_call"
                        ELSE "start_configured_call"]
            /\ cbv' = [cbv EXCEPT ![t] = event_callback]
            /\ last' = NoCall
    /\ UNCHANGED << handle, mutex, shut_down, result, globals, at_create,
                    heap, clock, reentry >>

\* emit_event, the call: the callback is the value read by the check or a
\* fresh read (the compiler may reload it), the user data is read now.
EmitCall(t) ==
    /\ pc[t] \in {"configure_call", "start_configured_call"}
    /\ reentry[t] # "waiting"
    /\ reentry' = [reentry EXCEPT ![t] = "none"]
    /\ \E f \in {cbv[t], event_callback} :
         last' = Returned(EmitOp(pc[t]), X11VNC_SUCCESS,
                          << [cb |-> f, ud |-> event_user_data,
                              type |-> EmitType(pc[t]),
                              message |-> EmitMessage(pc[t])] >>)
    /\ pc' = [pc EXCEPT ![t] = "idle"]
    /\ cbv' = [cbv EXCEPT ![t] = NULL]
    /\ UNCHANGED << handle, mutex, shut_down, result, globals, at_create,
                    heap, clock >>

\* x11vnc_server_get_config between lock and unlock, on the stored
\* configuration cfg and its flag: the return value and what is written to
\* the caller's struct (NULL: nothing).
x11vnc_server_get_config(cfg, valid) ==
    IF ~valid
    THEN [ret |-> X11VNC_ERROR_INVALID_ARG, out |-> NULL]
    ELSE [ret |-> X11VNC_SUCCESS, out |-> config_copy_strings(cfg)]

GetConfig(t) ==
    /\ Lock(t)
    /\ LET r == x11vnc_server_get_config(config, config_valid) IN
         /\ mutex' = 0
         /\ pc' = [pc EXCEPT ![t] = "idle"]
         /\ last' = ReturnedOut("get_config", r.ret, r.out)
    /\ UNCHANGED << handle, shut_down, result, cbv, globals, at_create, heap,
                    clock, reentry >>

\* Variant: the running check is left out.
get_port_NoRunningCheck ==
    IF got_rfbport # 0 THEN got_rfbport ELSE 5900

\* x11vnc_server_get_port between lock and unlock: the value returned.
x11vnc_server_get_port ==
    IF ~running THEN -1
    ELSE IF got_rfbport # 0 THEN got_rfbport ELSE 5900

GetPort(t) ==
    /\ Lock(t)
    /\ Return(t, "get_port", x11vnc_server_get_port, << >>)
    /\ UNCHANGED << handle, shut_down, result, cbv, globals, at_create, heap,
                    clock, reentry >>

\* x11vnc_server_get_client_count between lock and unlock.
x11vnc_server_get_client_count ==
    IF ~running THEN -1 ELSE client_count

GetClientCount(t) ==
    /\ Lock(t)
    /\ Return(t, "get_client_count", x11vnc_server_get_client_count, << >>)
    /\ UNCHANGED << handle, shut_down, result, cbv, globals, at_create, heap,
                    clock, reentry >>

\* update_cached_stats: the client figures (the timing and screen figures
\* and the placeholder estimates are not part of the state here).
update_cached_stats(st) ==
    [current_clients |-> client_count,
     max_clients_reached |->
         IF client_count > st.max_clients_reached
         THEN client_count ELSE st.max_clients_reached]

\* Variant: the cache is recomputed once it is 1000 ms old.
get_advanced_stats_AtMaxAge(now) ==
    IF ~running
    THEN [ret |-> X11VNC_ERROR_NOT_RUNNING, cached_stats |-> cached_stats,
          stats_last_update |-> stats_last_update, out |-> NULL]
    ELSE IF now - stats_last_update >= StatsMaxAge
    THEN LET st == update_cached_stats(cached_stats)
         IN [ret |-> X11VNC_SUCCESS, cached_stats |-> st,
             stats_last_update |-> now, out |-> st]
    ELSE [ret |-> X11VNC_SUCCESS, cached_stats |-> cached_stats,
          stats_last_update |-> stats_last_update, out |-> cached_stats]

\* x11vnc_server_get_advanced_stats between lock and unlock, now being
\* what get_timestamp_ms() returns: update_cached_stats runs, and stamps
\* the cache, when the cache is more than 1000 ms old.
x11vnc_server_get_advanced_stats(now) ==
    IF ~running
    THEN [ret |-> X11VNC_ERROR_NOT_RUNNING, cached_stats |-> cached_stats,
          stats_last_update |-> stats_last_update, out |-> NULL]
    ELSE IF now - stats_last_update > StatsMaxAge
    THEN LET st == update_cached_stats(cached_stats)
         IN [ret |-> X11VNC_SUCCESS, cached_stats |-> st,
             stats_last_update |-> now, out |-> st]
    ELSE [ret |-> X11VNC_SUCCESS, cached_stats |-> cached_stats,
          stats_last_update |-> stats_last_update, out |-> cached_stats]

GetAdvancedStats(t) ==
    /\ Lock(t)
    /\ LET r == x11vnc_server_get_advanced_stats(clock) IN
         /\ cached_stats' = r.cached_stats
         /\ stats_last_update' = r.stats_last_update
         /\ mutex' = 0
         /\ pc' = [pc EXCEPT ![t] = "idle"]
         /\ last' = ReturnedOut("get_advanced_stats", r.ret, r.out)
    /\ UNCHANGED << running, configured, config_valid, argc, argv, config,
                    event_callback, event_user_data, server_thread,
                    should_exit, saved_state, shut_down, result, cbv,
                    globals, at_create, heap, advanced_event_callback,
                    advanced_event_user_data, bandwidth_limit_kbps, clock,
                    reentry >>

\* Time passes: the monotonic clock advances by TickMs, up to MaxTicks
\* times.
ClockTick ==
    /\ clock < TimeAtCreate + MaxTicks * TickMs
    /\ clock' = clock + TickMs
    /\ last' = NoCall
    /\ UNCHANGED << handle, mutex, shut_down, pc, result, cbv, globals,
                    at_create, heap, reentry >>

\* x11vnc_server_get_clients between lock and unlock, given room for
\* max_clients entries: placeholder entries, as many as fit.
x11vnc_server_get_clients(max_clients) ==
    IF ~running
    THEN [ret |-> X11VNC_ERROR_NOT_RUNNING, out |-> NULL]
    ELSE LET count == IF client_count < max_clients THEN client_count
                      ELSE max_clients
         IN [ret |-> X11VNC_SUCCESS,
             out |-> [actual_count |-> count,
                      clients |-> [i \in 1..count |->
                          [client_id |-> "client_" \o FormatInt(i - 1),
                           hostname |-> "127.0.0.1",
                           port |-> 5900 + (i - 1)]]]]

GetClients(t) ==
    /\ Lock(t)
    /\ \E max_clients \in 1..MaxCapacity :
         LET r == x11vnc_server_get_clients(max_clients) IN
           /\ mutex' = 0
           /\ pc' = [pc EXCEPT ![t] = "idle"]
           /\ last' = ReturnedOut("get_clients", r.ret, r.out)
    /\ UNCHANGED << handle, shut_down, result, cbv, globals, at_create, heap,
                    clock, reentry >>

\* The engine, while x11vnc_main_legacy runs: connections come and go, and
\* the listening port is resolved.
EngineStep(t) ==
    /\ pc[t] = "run_engine"
    /\ \E n \in 0..MaxClients, p \in EnginePorts :
         /\ << n, p >> # << client_count, got_rfbport >>
         /\ client_count' = n
         /\ got_rfbport' = p
    /\ last' = NoCall
    /\ UNCHANGED << handle, mutex, shut_down, pc, result, cbv, use_dpy,
                    auth_file, view_only, shared, allow_list, at_create,
                    heap, clock, reentry >>

\* Variant: a null string of the configuration clears its global.
apply_config_to_globals_Clears(c) ==
    [view_only |-> IF c.view_only THEN 1 ELSE 0,
     shared |-> IF c.shared THEN 1 ELSE 0,
     allow_list |-> c.allow_hosts,
     use_dpy |-> c.display,
     auth_file |-> c.auth_file]

\* apply_config_to_globals: the five globals it leaves.  A null string of
\* the configuration leaves its global as it is.
apply_config_to_globals(c) ==
    [view_only |-> IF c.view_only THEN 1 ELSE 0,
     shared |-> IF c.shared THEN 1 ELSE 0,
     allow_list |-> IF c.allow_hosts # NULL THEN c.allow_hosts
                    ELSE allow_list,
     use_dpy |-> IF c.display # NULL THEN c.display ELSE use_dpy,
     auth_file |-> IF c.auth_file # NULL THEN c.auth_file ELSE auth_file]

\* config->display ? config->display : "", the operand of strcmp.
OrEmpty(str) == IF str # NULL THEN str ELSE ""

\* Variant: the IPv6 flag is not compared.
update_config_IgnoresIpv6(c, want) ==
    [ret |-> X11VNC_SUCCESS,
     restart_needed |->
         IF ~want THEN << >>
         ELSE IF config_valid
                 /\ ( \/ OrEmpty(c.display) # OrEmpty(config.display)
                      \/ c.port # config.port
                      \/ c.localhost_only # config.localhost_only )
         THEN << TRUE >>
         ELSE << FALSE >>,
     config |-> config_copy_strings(c),
     config_valid |-> TRUE,
     apply |-> running]

\* Variant: the configuration is stored only when no restart is needed.
update_config_KeepsOnRestart(c, want) ==
    LET differs == config_valid
                   /\ ( \/ OrEmpty(c.display) # OrEmpty(config.display)
                        \/ c.port # config.port
                        \/ c.localhost_only # config.localhost_only
                        \/ c.ipv6 # config.ipv6 )
    IN [ret |-> X11VNC_SUCCESS,
        restart_needed |-> IF ~want THEN << >> ELSE << differs >>,
        config |-> IF differs THEN config ELSE config_copy_strings(c),
        config_valid |-> TRUE,
        apply |-> running]

\* Variant: the globals are written whether or not the handle is running.
update_config_AlwaysApplies(c, want) ==
    [ret |-> X11VNC_SUCCESS,
     restart_needed |->
         IF ~want THEN << >>
         ELSE IF config_valid
                 /\ ( \/ OrEmpty(c.display) # OrEmpty(config.display)
                      \/ c.port # config.port
                      \/ c.localhost_only # config.localhost_only
                      \/ c.ipv6 # config.ipv6 )
         THEN << TRUE >>
         ELSE << FALSE >>,
     config |-> config_copy_strings(c),
     config_valid |-> TRUE,
     apply |-> TRUE]

\* Variant: the stored configuration is not marked valid.
update_config_NotValid(c, want) ==
    [ret |-> X11VNC_SUCCESS,
     restart_needed |->
         IF ~want THEN << >>
         ELSE IF config_valid
                 /\ ( \/ OrEmpty(c.display) # OrEmpty(config.display)
                      \/ c.port # config.port
                      \/ c.localhost_only # config.localhost_only
                      \/ c.ipv6 # config.ipv6 )
         THEN << TRUE >>
         ELSE << FALSE >>,
     config |-> config_copy_strings(c),
     config_valid |-> config_valid,
     apply |-> running]

\* x11vnc_server_update_config between lock and unlock.  want: the caller
\* passes a restart_needed to write to; restart_needed is what is written
\* to it (nothing when there is none); apply: the globals are written.
x11vnc_server_update_config(c, want) ==
    [ret |-> X11VNC_SUCCESS,
     restart_needed |->
         IF ~want THEN << >>
         ELSE IF config_valid
                 /\ ( \/ OrEmpty(c.display) # OrEmpty(config.display)
                      \/ c.port # config.port
                      \/ c.localhost_only # config.localhost_only
                      \/ c.ipv6 # config.ipv6 )
         THEN << TRUE >>
         ELSE << FALSE >>,
     config |-> config_copy_strings(c),
     config_valid |-> TRUE,
     apply |-> running]

\* update_config() called with a configuration out of S.
UpdateConfigFrom(t, S) ==
    /\ Lock(t)
    /\ \E c \in S, want \in BOOLEAN :
         LET r == x11vnc_server_update_config(c, want)
             g == apply_config_to_globals(c)
         IN /\ config' = r.config
            /\ config_valid' = r.config_valid
            /\ heap' = Blocks(argv, r.config)
            /\ IF r.apply
               THEN /\ view_only' = g.view_only
                    /\ shared' = g.shared
                    /\ allow_list' = g.allow_list
                    /\ use_dpy' = g.use_dpy
                    /\ auth_file' = g.auth_file
               ELSE UNCHANGED << view_only, shared, allow_list, use_dpy,
                                 auth_file >>
            /\ mutex' = 0
            /\ pc' = [pc EXCEPT ![t] = "idle"]
            /\ last' = ReturnedOut("update_config", r.ret,
                                   [restart_needed |-> r.restart_needed])
    /\ UNCHANGED << running, configured, argc, argv, event_callback,
                    event_user_data, server_thread, should_exit,
                    cached_stats, saved_state, shut_down, result, cbv,
                    client_count, got_rfbport, at_create, advanced, clock,
                    reentry >>

UpdateConfig(t) ==
    /\ pc[t] = "idle"
    /\ UpdateConfigFrom(t, UpdateConfigs)
UpdateConfigHot(t) ==
    /\ pc[t] = "idle"
    /\ UpdateConfigFrom(t, { HotConfig })

\* Variant: the display path is left as the handle's operations set it.
restore_global_state_KeepsDisplay(st) ==
    [client_count |-> st.saved_client_count,
     got_rfbport |-> st.saved_got_rfbport,
     use_dpy |-> use_dpy,
     auth_file |-> st.saved_auth_file]

\* restore_global_state: the four globals it leaves, given the backup.
restore_global_state(st) ==
    [client_count |-> st.saved_client_count,
     got_rfbport |-> st.saved_got_rfbport,
     use_dpy |-> st.saved_use_dpy,
     auth_file |-> st.saved_auth_file]

\* free_argv under "if (server->argv)", then free(server): the blocks left.
destroy_free(blocks) == (blocks \ {"argv"}) \ {"server"}

\* x11vnc_server_destroy, called when no thread is inside a call on the
\* handle and none makes one afterwards: stop (with its join), restore of
\* the globals, release of the vector, of the mutex and of the handle.
Destroy(t) ==
    /\ \A u \in Threads : pc[u] = "idle"
    /\ mutex = 0
    /\ LET r == stop_join(x11vnc_server_stop(StopFields)) IN
         /\ running' = r.running
         /\ should_exit' = r.should_exit
         /\ shut_down' = r.shut_down
         /\ server_thread' = r.server_thread
    /\ LET g == restore_global_state(saved_state) IN
         /\ client_count' = g.client_count
         /\ got_rfbport' = g.got_rfbport
         /\ use_dpy' = g.use_dpy
         /\ auth_file' = g.auth_file
    /\ heap' = destroy_free(heap)
    /\ pc' = [u \in Threads |-> "destroyed"]
    /\ last' = Returned("destroy", 0, << >>)
    /\ UNCHANGED << configured, config_valid, argc, argv, config,
                    event_callback, event_user_data, cached_stats,
                    saved_state, mutex, result, cbv, view_only, shared,
                    allow_list, at_create, advanced, clock, reentry >>

SetEventCallback(t) ==
    /\ Lock(t)
    /\ \E reg \in Registrations :
         /\ event_callback' = reg.cb
         /\ event_user_data' = reg.ud
    /\ Return(t, "set_event_callback", X11VNC_SUCCESS, << >>)
    /\ UNCHANGED << running, configured, config_valid, argc, argv, config,
                    server_thread, should_exit, shut_down, result, cbv,
                    cached_stats, saved_state, globals, at_create, heap,
                    advanced, clock, reentry >>

\* ------------------------------------------------ advanced operations ---
\* (callback, user_data) pairs given to
\* x11vnc_server_set_advanced_event_callback.
AdvancedRegistrations ==
    { [cb |-> NULL, ud |-> NULL],
      [cb |-> "on_typed_a", ud |-> "typed_ctx_a"],
      [cb |-> "on_typed_b", ud |-> "typed_ctx_b"] }

SetAdvancedEventCallback(t) ==
    /\ Lock(t)
    /\ \E reg \in AdvancedRegistrations :
         /\ advanced_event_callback' = reg.cb
         /\ advanced_event_user_data' = reg.ud
    /\ Return(t, "set_advanced_event_callback", X11VNC_SUCCESS, << >>)
    /\ UNCHANGED << running, configured, config_valid, argc, argv, config,
                    event_callback, event_user_data, server_thread,
                    should_exit, cached_stats, saved_state, shut_down,
                    result, cbv, globals, at_create, heap,
                    bandwidth_limit_kbps, stats_last_update, clock,
                    reentry >>

\* An advanced operation that is a critical section returning r and
\* leaving the handle as it is.
PlainCall(t, o, r) ==
    /\ Lock(t)
    /\ Return(t, o, r, << >>)
    /\ UNCHANGED << handle, shut_down, result, cbv, globals, at_create, heap,
                    clock, reentry >>

\* The placeholder operations, between lock and unlock, called with valid
\* arguments: the value returned.
x11vnc_server_disconnect_client ==
    IF ~running THEN X11VNC_ERROR_NOT_RUNNING ELSE X11VNC_SUCCESS
x11vnc_server_set_client_permissions ==
    IF ~running THEN X11VNC_ERROR_NOT_RUNNING ELSE X11VNC_SUCCESS
x11vnc_server_inject_text ==
    IF ~running THEN X11VNC_ERROR_NOT_RUNNING ELSE X11VNC_SUCCESS
x11vnc_server_update_screen ==
    IF ~running THEN X11VNC_ERROR_NOT_RUNNING ELSE X11VNC_SUCCESS
x11vnc_server_process_events ==
    IF ~running THEN X11VNC_ERROR_NOT_RUNNING ELSE EventsProcessed

DisconnectClient(t) ==
    /\ pc[t] = "idle"
    /\ PlainCall(t, "disconnect_client", x11vnc_server_disconnect_client)
SetClientPermissions(t) ==
    /\ pc[t] = "idle"
    /\ PlainCall(t, "set_client_permissions",
                 x11vnc_server_set_client_permissions)
InjectText(t) ==
    /\ pc[t] = "idle"
    /\ PlainCall(t, "inject_text", x11vnc_server_inject_text)
UpdateScreen(t) ==
    /\ pc[t] = "idle"
    /\ PlainCall(t, "update_screen", x11vnc_server_update_screen)
ProcessEvents(t) ==
    /\ pc[t] = "idle"
    /\ PlainCall(t, "process_events", x11vnc_server_process_events)

\* An advanced operation that writes to storage of its caller: the return
\* value and what is written (NULL: nothing).
OutCall(t, o, r) ==
    /\ Lock(t)
    /\ mutex' = 0
    /\ pc' = [pc EXCEPT ![t] = "idle"]
    /\ last' = ReturnedOut(o, r.ret, r.out)
    /\ UNCHANGED << handle, shut_down, result, cbv, globals, at_create, heap,
                    clock, reentry >>

\* x11vnc_server_remote_control between lock and unlock, with a response
\* buffer large enough for the text.
x11vnc_server_remote_control(command) ==
    IF ~running THEN [ret |-> X11VNC_ERROR_NOT_RUNNING, out |-> NULL]
    ELSE [ret |-> X11VNC_SUCCESS,
          out |-> "Command '" \o command \o "' executed successfully"]

RemoteControl(t) ==
    /\ pc[t] = "idle"
    /\ OutCall(t, "remote_control", x11vnc_server_remote_control("ping"))

\* x11vnc_server_get_clipboard between lock and unlock, given a buffer of
\* buffer_size bytes: the placeholder text needs its length and one more.
ClipboardText == "Sample clipboard content"
x11vnc_server_get_clipboard(buffer_size) ==
    IF ~running THEN [ret |-> X11VNC_ERROR_NOT_RUNNING, out |-> NULL]
    ELSE IF Len(ClipboardText) >= buffer_size
    THEN [ret |-> X11VNC_ERROR_NO_MEMORY,
          out |-> [actual_size |-> Len(ClipboardText), buffer |-> NULL]]
    ELSE [ret |-> X11VNC_SUCCESS,
          out |-> [actual_size |-> Len(ClipboardText),
                   buffer |-> ClipboardText]]

GetClipboard(t) ==
    /\ pc[t] = "idle"
    /\ \E buffer_size \in {Len(ClipboardText), Len(ClipboardText) + 1} :
         OutCall(t, "get_clipboard",
                 x11vnc_server_get_clipboard(buffer_size))

\* Limits given to x11vnc_server_set_bandwidth_limit.
BandwidthLimits == { -1, 0, 512 }

\* Variant: the limit is set on a running handle only.
set_bandwidth_limit_ChecksRunning(max_kbps_per_client) ==
    IF max_kbps_per_client < 0
    THEN [ret |-> X11VNC_ERROR_INVALID_ARG,
          bandwidth_limit_kbps |-> bandwidth_limit_kbps]
    ELSE IF ~running
    THEN [ret |-> X11VNC_ERROR_NOT_RUNNING,
          bandwidth_limit_kbps |-> bandwidth_limit_kbps]
    ELSE [ret |-> X11VNC_SUCCESS,
          bandwidth_limit_kbps |-> max_kbps_per_client]

\* x11vnc_server_set_bandwidth_limit: the argument check, then the store
\* between lock and unlock.  The running flag is not looked at.
x11vnc_server_set_bandwidth_limit(max_kbps_per_client) ==
    IF max_kbps_per_client < 0
    THEN [ret |-> X11VNC_ERROR_INVALID_ARG,
          bandwidth_limit_kbps |-> bandwidth_limit_kbps]
    ELSE [ret |-> X11VNC_SUCCESS,
          bandwidth_limit_kbps |-> max_kbps_per_client]

SetBandwidthLimit(t) ==
    /\ pc[t] = "idle"
    /\ \E k \in BandwidthLimits :
         LET r == x11vnc_server_set_bandwidth_limit(k) IN
           /\ k >= 0 => mutex = 0
           /\ bandwidth_limit_kbps' = r.bandwidth_limit_kbps
           /\ last' = Returned("set_bandwidth_limit", r.ret, << >>)
    /\ UNCHANGED << running, configured, config_valid, argc, argv, config,
                    event_callback, event_user_data, server_thread,
                    should_exit, cached_stats, saved_state, mutex, pc,
                    shut_down, result, cbv, globals, at_create, heap,
                    advanced_event_callback, advanced_event_user_data,
                    stats_last_update, clock, reentry >>

\* Variant: the typed sink is not told of an injected pointer event.
inject_pointer_Silent ==
    IF ~running THEN [ret |-> X11VNC_ERROR_NOT_RUNNING, emit |-> FALSE]
    ELSE [ret |-> X11VNC_SUCCESS, emit |-> FALSE]

\* x11vnc_server_inject_pointer, x11vnc_server_inject_key and
\* x11vnc_server_set_clipboard from the lock to emit_advanced_event: the
\* value to return, and whether emit_advanced_event is called.
x11vnc_server_inject_pointer ==
    IF ~running THEN [ret |-> X11VNC_ERROR_NOT_RUNNING, emit |-> FALSE]
    ELSE [ret |-> X11VNC_SUCCESS, emit |-> advanced_event_callback # NULL]
x11vnc_server_inject_key ==
    IF ~running THEN [ret |-> X11VNC_ERROR_NOT_RUNNING, emit |-> FALSE]
    ELSE [ret |-> X11VNC_SUCCESS, emit |-> advanced_event_callback # NULL]
x11vnc_server_set_clipboard ==
    IF ~running THEN [ret |-> X11VNC_ERROR_NOT_RUNNING, emit |-> FALSE]
    ELSE [ret |-> X11VNC_SUCCESS, emit |-> advanced_event_callback # NULL]

\* Such an operation up to its return or, the mutex still held, up to the
\* call of the typed sink.
TypedCall(t, o, r, call) ==
    /\ Lock(t)
    /\ IF r.emit
       THEN /\ mutex' = t
            /\ pc' = [pc EXCEPT ![t] = call]
            /\ last' = NoCall
       ELSE Return(t, o, r.ret, << >>)
    /\ UNCHANGED << handle, shut_down, result, cbv, globals, at_create, heap,
                    clock, reentry >>

InjectPointer(t) ==
    /\ pc[t] = "idle"
    /\ TypedCall(t, "inject_pointer", x11vnc_server_inject_pointer,
                 "inject_pointer_call")
InjectKey(t) ==
    /\ pc[t] = "idle"
    /\ TypedCall(t, "inject_key", x11vnc_server_inject_key,
                 "inject_key_call")
SetClipboard(t) ==
    /\ pc[t] = "idle"
    /\ TypedCall(t, "set_clipboard", x11vnc_server_set_clipboard,
                 "set_clipboard_call")

\* Where a thread is while the typed sink runs, and what it is called with.
TypedCalls == {"inject_pointer_call", "inject_key_call", "set_clipboard_call"}
AdvancedOp(p) ==
    CASE p = "inject_pointer_call" -> "inject_pointer"
      [] p = "inject_key_call" -> "inject_key"
      [] p = "set_clipboard_call" -> "set_clipboard"
AdvancedType(p) ==
    IF p = "set_clipboard_call" THEN X11VNC_EVENT_CLIPBOARD_CHANGED
    ELSE X11VNC_EVENT_INPUT_RECEIVED
\* The client_id of the payload.
AdvancedSource(p) == IF p = "set_clipboard_call" THEN "server" ELSE "injected"

\* emit_advanced_event: the typed sink, if one is registered, is called
\* with its user data; when it has returned the operation unlocks and
\* returns success.  message is the client_id of the payload here.
AdvancedEmit(t) ==
    /\ pc[t] \in TypedCalls
    /\ reentry[t] # "waiting"
    /\ reentry' = [reentry EXCEPT ![t] = "none"]
    /\ mutex' = 0
    /\ pc' = [pc EXCEPT ![t] = "idle"]
    /\ last' = Returned(AdvancedOp(pc[t]), X11VNC_SUCCESS,
                        IF advanced_event_callback = NULL THEN << >>
                        ELSE << [cb |-> advanced_event_callback,
                                 ud |-> advanced_event_user_data,
                                 type |-> AdvancedType(pc[t]),
                                 message |-> AdvancedSource(pc[t])] >>)
    /\ UNCHANGED << handle, shut_down, result, cbv, globals, at_create, heap,
                    clock >>

\* A callback that is running calls x11vnc_server_is_running on the handle
\* it was given, and arrives at its pthread_mutex_lock.
InCallback(t) ==
    pc[t] \in TypedCalls \cup {"configure_call", "start_configured_call"}

CallbackCallsApi(t) ==
    /\ InCallback(t)
    /\ reentry[t] = "none"
    /\ reentry' = [reentry EXCEPT ![t] = "waiting"]
    /\ last' = NoCall
    /\ UNCHANGED << handle, mutex, shut_down, pc, result, cbv, globals,
                    at_create, heap, clock >>

\* pthread_mutex_lock of that call: it returns when the mutex is free (the
\* mutex is a default one: locked by the caller itself it never is), and
\* x11vnc_server_is_running reads the flag, unlocks and returns into the
\* callback.
CallbackApiReturns(t) ==
    /\ reentry[t] = "waiting"
    /\ mutex = 0
    /\ reentry' = [reentry EXCEPT ![t] = "done"]
    /\ last' = NoCall
    /\ UNCHANGED << handle, mutex, shut_down, pc, result, cbv, globals,
                    at_create, heap, clock >>

Next ==
    \E t \in Threads :
        \/ Start(t)
        \/ Run(t)
        \/ EngineReturn(t)
        \/ RunFinish(t)
        \/ Stop(t)
        \/ StopJoin(t)
        \/ IsRunning(t)
        \/ Configure(t)
        \/ StartConfigured(t)
        \/ EmitCheck(t)
        \/ EmitCall(t)
        \/ SetEventCallback(t)

Spec == Init /\ [][Next]_vars

\* The engine returns once it sees shut_down set; a thread that is not
\* blocked goes on (critical sections are finite, so the mutex is handed on).
Fairness ==
    \A t \in Threads :
        /\ WF_vars(shut_down = 1 /\ EngineReturn(t))
        /\ WF_vars(RunFinish(t))
        /\ WF_vars(StopJoin(t))

LiveSpec == Spec /\ Fairness

\* ------------------------------------------- one caller, every operation --
\* The thread that uses the handle when its calls come one after another.
Callers == {1}

\* The engine's globals in a process where the engine ran before.
UsedGlobals ==
    [client_count |-> 0, got_rfbport |-> 5902, use_dpy |-> ":1",
     auth_file |-> "/root/.Xauthority", view_only |-> 0, shared |-> 1,
     allow_list |-> "10.0.0.1"]

InitialGlobals == { FreshGlobals, UsedGlobals }

\* create() in a process in either condition.
ApiInit ==
    /\ \E g \in InitialGlobals :
         /\ client_count = g.client_count
         /\ got_rfbport = g.got_rfbport
         /\ use_dpy = g.use_dpy
         /\ auth_file = g.auth_file
         /\ view_only = g.view_only
         /\ shared = g.shared
         /\ allow_list = g.allow_list
    /\ Created

\* The lifecycle operations and the queries.
QueryNext ==
    \E t \in Callers :
        \/ Start(t)
        \/ Run(t)
        \/ EngineStep(t)
        \/ EngineReturn(t)
        \/ RunFinish(t)
        \/ Stop(t)
        \/ StopJoin(t)
        \/ Configure(t)
        \/ StartConfigured(t)
        \/ EmitCheck(t)
        \/ IsRunning(t)
        \/ GetPort(t)
        \/ GetClientCount(t)
        \/ GetAdvancedStats(t)
        \/ GetClients(t)

QuerySpec == ApiInit /\ [][QueryNext]_vars

\* The lifecycle operations and those on the stored configuration, on a
\* handle created in a process whose engine has not run.
ConfigNext ==
    \E t \in Callers :
        \/ Start(t)
        \/ Run(t)
        \/ EngineReturn(t)
        \/ RunFinish(t)
        \/ Stop(t)
        \/ StopJoin(t)
        \/ Configure(t)
        \/ StartConfigured(t)
        \/ EmitCheck(t)
        \/ GetConfig(t)
        \/ UpdateConfig(t)

ConfigSpec == Init /\ [][ConfigNext]_vars

\* Everything that writes a global or the handle's memory, and destroy.
DestroyNext ==
    \E t \in Callers :
        \/ Start(t)
        \/ Run(t)
        \/ EngineStep(t)
        \/ EngineReturn(t)
        \/ RunFinish(t)
        \/ Stop(t)
        \/ StopJoin(t)
        \/ Configure(t)
        \/ StartConfigured(t)
        \/ EmitCheck(t)
        \/ UpdateConfig(t)
        \/ Destroy(t)

DestroySpec == ApiInit /\ [][DestroyNext]_vars

\* The statistics of a handle started with arguments, as time passes.
StatsNext ==
    \/ \E t \in Callers :
          \/ Start(t)
          \/ Run(t)
          \/ EngineStep(t)
          \/ EngineReturn(t)
          \/ RunFinish(t)
          \/ Stop(t)
          \/ StopJoin(t)
          \/ GetAdvancedStats(t)
    \/ ClockTick

StatsSpec == Init /\ [][StatsNext]_vars

\* Both event sinks and the advanced operations, and callbacks that call
\* back into the handle.
EventNext ==
    \E t \in Callers :
        \/ Start(t)
        \/ Stop(t)
        \/ StopJoin(t)
        \/ Configure(t)
        \/ EmitCheck(t)
        \/ EmitCall(t)
        \/ SetEventCallback(t)
        \/ SetAdvancedEventCallback(t)
        \/ GetClients(t)
        \/ DisconnectClient(t)
        \/ SetClientPermissions(t)
        \/ InjectPointer(t)
        \/ InjectKey(t)
        \/ InjectText(t)
        \/ GetClipboard(t)
        \/ SetClipboard(t)
        \/ RemoteControl(t)
        \/ ProcessEvents(t)
        \/ UpdateScreen(t)
        \/ SetBandwidthLimit(t)
        \/ AdvancedEmit(t)
        \/ CallbackCallsApi(t)
        \/ CallbackApiReturns(t)

EventSpec == Init /\ [][EventNext]_vars

\* Every operation that can be called on a handle short of destroying it,
\* with one configuration to configure and one to update with, no sink
\* being registered.
WholeNext ==
    \E t \in Callers :
        \/ Start(t)
        \/ Run(t)
        \/ EngineReturn(t)
        \/ RunFinish(t)
        \/ Stop(t)
        \/ StopJoin(t)
        \/ ConfigureOnce(t)
        \/ StartConfigured(t)
        \/ EmitCheck(t)
        \/ UpdateConfigHot(t)
        \/ GetConfig(t)
        \/ IsRunning(t)
        \/ GetPort(t)
        \/ GetClientCount(t)
        \/ GetAdvancedStats(t)
        \/ GetClients(t)
        \/ DisconnectClient(t)
        \/ SetClientPermissions(t)
        \/ InjectPointer(t)
        \/ InjectKey(t)
        \/ InjectText(t)
        \/ GetClipboard(t)
        \/ SetClipboard(t)
        \/ RemoteControl(t)
        \/ ProcessEvents(t)
        \/ UpdateScreen(t)
        \/ SetBandwidthLimit(t)

WholeSpec == Init /\ [][WholeNext]_vars

\* One caller with both sinks: the lifecycle to its end in destroy, the
\* configuration operations, one typed operation and get_clipboard.
SinkNext ==
    \E t \in Callers :
        \/ Start(t)
        \/ Run(t)
        \/ EngineReturn(t)
        \/ RunFinish(t)
        \/ Stop(t)
        \/ StopJoin(t)
        \/ ConfigureOnce(t)
        \/ StartConfigured(t)
        \/ EmitCheck(t)
        \/ EmitCall(t)
        \/ UpdateConfigHot(t)
        \/ SetEventCallback(t)
        \/ SetAdvancedEventCallback(t)
        \/ InjectPointer(t)
        \/ AdvancedEmit(t)
        \/ GetClipboard(t)
        \/ Destroy(t)

SinkSpec == Init /\ [][SinkNext]_vars

\* configure and start_configured over the configurations of the
\* translation.
TranslateNext ==
    \E t \in Callers :
        \/ ConfigureTranslated(t)
        \/ StartConfigured(t)
        \/ EmitCheck(t)
        \/ Stop(t)
        \/ StopJoin(t)

TranslateSpec == Init /\ [][TranslateNext]_vars

\* ------------------------------------------------------------- claims ----
InRun(t) == pc[t] \in {"run_engine", "run_returned"}
NoRunInProgress == \A t \in Threads : ~InRun(t)
AllIdle == \A t \in Threads : pc[t] = "idle"

\* The step is the critical section of operation o, entered by an idle
\* thread: it returns at once, or goes on at the label after its unlock.
CriticalSection(o, after) ==
    \E t \in Threads :
        /\ pc[t] = "idle"
        /\ \/ pc'[t] = after
           \/ pc' = pc /\ last'.op = o

\* C1: once stop() has returned on a started handle (no run() in progress),
\* is_running() returns false.
C1_StoppedIsNotRunning ==
    (last.op = "stop" /\ NoRunInProgress) => x11vnc_server_is_running = 0

\* C2: after stop() has returned on a started handle, a fresh
\* start_with_arguments whose allocation succeeds returns success and leaves
\* the handle Running.
C2_RestartAfterStop ==
    [][ ( /\ should_exit /\ AllIdle
          /\ last'.op = "start"
          /\ last'.ret # X11VNC_ERROR_NO_MEMORY )
        => (last'.ret = X11VNC_SUCCESS /\ running') ]_vars

\* C3: start_with_arguments on a Running handle returns AlreadyRunning and
\* leaves argv, argc, running and should_exit as they were.
C3_StartWhileRunning ==
    [][ (running /\ last'.op = "start")
        => ( /\ last'.ret = X11VNC_ERROR_ALREADY_RUNNING
             /\ UNCHANGED << argv, argc, running, should_exit >> ) ]_vars

C3_Witness ==
    /\ last.op = "start" /\ last.ret = X11VNC_ERROR_ALREADY_RUNNING
    /\ running /\ argv # NullArgv

\* C4: if stop() signals while a run() is blocked in the engine, that run()
\* eventually returns and leaves the handle not Running.
C4_StopEndsRun ==
    \A t \in Threads :
        ( /\ pc[t] = "run_engine"
          /\ \E u \in Threads : pc[u] = "stop_join" )
        ~> (pc[t] = "idle" /\ last.op = "run" /\ ~running)

C4_Witness ==
    /\ last.op = "run" /\ ~running
    /\ should_exit /\ shut_down = 1
    /\ \E u \in Threads : pc[u] = "stop_join"

\* C5: run() returns the engine's result code and the handle is not Running
\* when it returns.
C5_RunReturnsEngineResult ==
    [][ \A t \in Threads :
          (pc[t] = "run_returned" /\ pc'[t] = "idle")
          => ( /\ last' = Returned("run", result[t], << >>)
               /\ ~running'
               /\ x11vnc_server_is_running' = 0 ) ]_vars

C5_Witness ==
    last.op = "run" /\ last.ret = MaxResult /\ ~running

\* C6: run() on a handle that is not Running returns NotRunning, enters the
\* engine with no thread and changes nothing of the handle.
C6_RunWhenNotRunning ==
    [][ (~running /\ CriticalSection("run", "run_engine"))
        => ( /\ last'.op = "run"
             /\ last'.ret = X11VNC_ERROR_NOT_RUNNING
             /\ pc' = pc
             /\ UNCHANGED << handle, shut_down, mutex >> ) ]_vars

C6_Witness ==
    /\ last.op = "run" /\ last.ret = X11VNC_ERROR_NOT_RUNNING
    /\ argv # NullArgv

\* C7: stop() on a handle that is not Running changes no handle field and
\* not the engine's shutdown flag, and in every state two stop() calls in a
\* row leave what one leaves.
StopOnce(h) == stop_join(x11vnc_server_stop(h))

C7_StopIdempotent ==
    /\ [][ (~running /\ CriticalSection("stop", "stop_join"))
           => ( /\ last' = Returned("stop", 0, << >>)
                /\ pc' = pc
                /\ UNCHANGED << handle, shut_down, mutex >> ) ]_vars
    /\ [](StopOnce(StopOnce(StopFields)) = StopOnce(StopFields))

C7_Witness ==
    /\ last.op = "stop"
    /\ running /\ should_exit /\ shut_down = 1
    /\ StopOnce(StopFields) = StopFields

\* C8 as stated: start_configured on a never-configured handle returns
\* InvalidArgument and leaves the handle not Running with no argument vector.
C8_AsStated ==
    [][ (~configured /\ last'.op = "start_configured")
        => ( /\ last'.ret = X11VNC_ERROR_INVALID_ARG
             /\ ~running' /\ argv' = NullArgv ) ]_vars

\* C8 amended: start_configured on a never-configured handle returns
\* InvalidArgument, leaves running, argv, argc and should_exit as they were
\* and delivers no event.
C8_StartConfiguredUnconfigured ==
    [][ (~configured /\ CriticalSection("start_configured",
                                        "start_configured_emit"))
        => ( /\ last' = Returned("start_configured",
                                 X11VNC_ERROR_INVALID_ARG, << >>)
             /\ pc' = pc
             /\ UNCHANGED << running, argv, argc, should_exit >> ) ]_vars

C8_Witness ==
    /\ last.op = "start_configured"
    /\ last.ret = X11VNC_ERROR_INVALID_ARG
    /\ ~configured /\ ~running /\ argv = NullArgv

\* C9: on a configured handle that is not Running, start_configured (its
\* allocation succeeding) stores the translation of the stored configuration,
\* makes the handle Running, clears should_exit, and its emit_event delivers
\* one Started event to the sink registered at that time.
OnceArgv ==
    << "x11vnc", "-display", ":0", "-rfbport", "5901", "-nopw", "-viewonly",
       "-shared", "-once", "-quiet" >>

StartedEvent(f, u) ==
    [cb |-> f, ud |-> u, type |-> X11VNC_EVENT_STARTED,
     message |-> "Server started with configuration"]

C9_StartConfigured ==
    /\ [][ ( /\ configured /\ config_valid /\ ~running
             /\ CriticalSection("start_configured", "start_configured_emit")
             /\ last'.ret # X11VNC_ERROR_NO_MEMORY )
           => ( /\ \E t \in Threads :
                     pc[t] = "idle" /\ pc'[t] = "start_configured_emit"
                /\ argv' = config_to_argv(config)
                /\ argc' = Len(argv')
                /\ (config = OnceConfig => argv' = OnceArgv)
                /\ running' /\ ~should_exit' ) ]_vars
    /\ [][ \A t \in Threads :
             /\ (pc[t] = "start_configured_emit" /\ pc'[t] = "idle")
                => ( /\ event_callback = NULL
                     /\ last' = Returned("start_configured",
                                         X11VNC_SUCCESS, << >>) )
             /\ ( /\ pc[t] = "start_configured_call" /\ pc'[t] = "idle"
                  /\ event_callback = cbv[t] )
                => last' = Returned("start_configured", X11VNC_SUCCESS,
                        << StartedEvent(event_callback, event_user_data) >>)
       ]_vars

C9_Witness ==
    /\ last.op = "start_configured" /\ last.ret = X11VNC_SUCCESS
    /\ Len(last.ev) = 1 /\ last.ev[1].cb = "on_event_a"
    /\ last.ev[1].ud = "ctx_a"
    /\ running /\ config = OnceConfig /\ argv = OnceArgv /\ argc = 10

\* C10: configure() on a Running handle returns AlreadyRunning, leaves the
\* stored configuration and the configured flag as they were and delivers
\* no event.
C10_ConfigureWhileRunning ==
    [][ (running /\ CriticalSection("configure", "configure_emit"))
        => ( /\ last' = Returned("configure",
                                 X11VNC_ERROR_ALREADY_RUNNING, << >>)
             /\ pc' = pc
             /\ UNCHANGED << config, configured, config_valid >> ) ]_vars

C10_Witness ==
    /\ last.op = "configure"
    /\ last.ret = X11VNC_ERROR_ALREADY_RUNNING
    /\ running /\ configured /\ config = SecureConfig


\* C11: after configure(c) has succeeded, get_config succeeds and writes a
\* configuration equal to c in every field; the strings of the stored
\* configuration are blocks of the handle's own, not the caller's, and the
\* strings written by get_config are blocks of the caller's own, not the
\* handle's, so that a change made through either leaves what the handle
\* stores, and a later get_config returns, as it was.
C11_GetConfigReturnsCopy ==
    \A c \in Configs :
        LET stored == x11vnc_server_configure(c)
            got == x11vnc_server_get_config(stored.config,
                                            stored.config_valid)
        IN stored.ret = X11VNC_SUCCESS
           => /\ got.ret = X11VNC_SUCCESS
              /\ got.out = c
              /\ \A f \in StringFields :
                    /\ config_copy_pointers(c)[f] # "src"
                    /\ config_copy_pointers(stored.config)[f] # "src"

C11_Witness ==
    /\ last.op = "get_config" /\ last.ret = X11VNC_SUCCESS
    /\ configured /\ ~running
    /\ last.out = SecureConfig /\ config = SecureConfig


\* C12: when start_configured has just succeeded on a configuration whose
\* port is positive, get_port returns that port.
C12_PortAfterStartConfigured ==
    [][ ( /\ last.op = "start_configured" /\ last.ret = X11VNC_SUCCESS
          /\ config.port > 0
          /\ last'.op = "get_port" )
        => last'.ret = config.port ]_vars

\* C13: on a handle that is not running, get_port and get_client_count
\* return -1, get_advanced_stats and get_clients return NOT_RUNNING and
\* write nothing, is_running returns false, and none of them changes a
\* field of the handle.
C13_QueriesWhenNotRunning ==
    [][ ~running
        => /\ last'.op \in {"get_port", "get_client_count"}
              => (last'.ret = -1 /\ UNCHANGED handle)
           /\ last'.op \in {"get_advanced_stats", "get_clients"}
              => ( /\ last'.ret = X11VNC_ERROR_NOT_RUNNING
                   /\ last'.out = NULL
                   /\ UNCHANGED handle )
           /\ last'.op = "is_running"
              => (last'.ret = 0 /\ UNCHANGED handle) ]_vars

C13_Witness ==
    /\ last.op = "get_port" /\ last.ret = -1
    /\ ~running /\ configured /\ argv = OnceArgv
    /\ got_rfbport = 5901


\* C14: when destroy has returned, the connection count, the resolved port,
\* the display path and the auth-file path hold the values they held when
\* create was called.
C14_DestroyRestoresGlobals ==
    last.op = "destroy" => Shadowed = at_create

C14_Witness ==
    /\ last.op = "destroy"
    /\ at_create.use_dpy = ":1" /\ use_dpy = ":1"
    /\ view_only = 1 /\ shut_down = 1
    /\ argv = OnceArgv

\* C15: when destroy has returned, neither the argument vector nor any
\* string of the stored configuration is still allocated.
C15_DestroyReleasesMemory ==
    last.op = "destroy" => heap \cap ({"argv"} \cup StringFields) = {}

\* The fields update_config compares, an absent display path as the empty
\* one.
RestartFields(c) ==
    << IF c.display = NULL THEN "" ELSE c.display, c.port,
       c.localhost_only, c.ipv6 >>

\* C17: with a configuration stored, update_config(c) writes true to the
\* restart_needed it is given if c differs from the stored configuration
\* in display path, port, localhost-only flag or IPv6 flag, and false if it
\* differs in none of them.
C17_RestartNeeded ==
    \A c \in UpdateConfigs :
        config_valid
        => x11vnc_server_update_config(c, TRUE).restart_needed
           = << RestartFields(c) # RestartFields(config) >>

C17_Witness ==
    /\ last.op = "update_config"
    /\ last.out.restart_needed = << TRUE >>
    /\ config = Ipv6Config

\* C18: update_config(c) succeeds and stores c, with or without a
\* restart_needed to write to, on a running handle or not, whatever it
\* writes to restart_needed, and a get_config that follows returns c.
C18_UpdateAlwaysStores ==
    \A c \in UpdateConfigs, want \in BOOLEAN :
        LET r == x11vnc_server_update_config(c, want)
            got == x11vnc_server_get_config(r.config, r.config_valid)
        IN /\ r.ret = X11VNC_SUCCESS
           /\ r.config = c
           /\ got.ret = X11VNC_SUCCESS
           /\ got.out = c

C18_Witness ==
    /\ last.op = "get_config" /\ last.ret = X11VNC_SUCCESS
    /\ last.out = EmptyDisplayConfig
    /\ running

\* C19: update_config on a handle that is not running leaves every global
\* of the engine as it was; on a running handle it leaves the view-only and
\* shared globals equal to the flags of the configuration it stored.
C19_UpdateAppliesWhenRunning ==
    [][ last'.op = "update_config"
        => IF running
           THEN /\ view_only' = (IF config'.view_only THEN 1 ELSE 0)
                /\ shared' = (IF config'.shared THEN 1 ELSE 0)
           ELSE UNCHANGED << globals, shut_down >> ]_vars

C19_Witness ==
    /\ last.op = "update_config"
    /\ running
    /\ config = OnceConfig
    /\ view_only = 1 /\ shared = 1 /\ use_dpy = ":0"


\* C16: a start that returns NO_MEMORY leaves the argument vector, the
\* argument count, the running flag and the exit flag as they were.
C16_StartOutOfMemory ==
    [][ (last'.op = "start" /\ last'.ret = X11VNC_ERROR_NO_MEMORY)
        => UNCHANGED << argv, argc, running, should_exit >> ]_vars

\* C20: on a handle that is not running, start with a count of 0 or a null
\* vector, its allocations succeeding, returns success, stores the vector
\* << "x11vnc" >> with count 1, sets running and clears should_exit.
C20_StartWithoutArguments ==
    \A in \in StartInputs :
        (~running /\ (in.argc = 0 \/ in.null))
        => x11vnc_server_start(in, FALSE)
           = [ret |-> X11VNC_SUCCESS, argc |-> 1, argv |-> << "x11vnc" >>,
              should_exit |-> FALSE, running |-> TRUE]

C20_Witness ==
    /\ last.op = "start" /\ last.ret = X11VNC_SUCCESS
    /\ argv = << "x11vnc" >> /\ argc = 1
    /\ running /\ ~should_exit
    /\ shut_down = 1

\* The options of the command line in the order the specification gives
\* them, each with the condition under which it is present.
Option(present, words) == [present |-> present, words |-> words]
OptionTable(c) ==
    << Option(TRUE, << "x11vnc" >>),
       Option(c.display # NULL, << "-display", c.display >>),
       Option(c.auth_file # NULL, << "-auth", c.auth_file >>),
       Option(c.port # 5900 /\ c.port > 0, << "-rfbport", FormatInt(c.port) >>),
       Option(c.localhost_only, << "-localhost" >>),
       Option(c.ipv6, << "-6" >>),
       Option(c.password # NULL, << "-passwd", c.password >>),
       Option(c.password = NULL /\ c.password_file # NULL,
              << "-passwdfile", c.password_file >>),
       Option(c.password = NULL /\ c.password_file = NULL, << "-nopw" >>),
       Option(c.view_only, << "-viewonly" >>),
       Option(c.allow_hosts # NULL, << "-allow", c.allow_hosts >>),
       Option(c.shared, << "-shared" >>),
       Option(~c.shared, << "-noshared" >>),
       Option(c.forever, << "-forever" >>),
       Option(c.once, << "-once" >>),
       Option(c.poll_interval_ms # 30,
              << "-wait", FormatInt(c.poll_interval_ms) >>),
       Option(~c.use_shm, << "-noshm" >>),
       Option(~c.use_xdamage, << "-noxdamage" >>),
       Option(c.wireframe, << "-wireframe" >>),
       Option(~c.show_cursor, << "-nocursor" >>),
       Option(~c.accept_bell, << "-nobell" >>),
       Option(c.geometry # NULL, << "-geometry", c.geometry >>),
       Option(c.clip # NULL, << "-clip", c.clip >>),
       Option(TRUE, << "-quiet" >>) >>

RECURSIVE PresentWords(_, _)
PresentWords(table, i) ==
    IF i > Len(table) THEN << >>
    ELSE (IF table[i].present THEN table[i].words ELSE << >>)
         \o PresentWords(table, i + 1)

\* A successful start_configured has stored the vector and is about to
\* emit its event.
Translated == \E t \in Threads : pc[t] = "start_configured_emit"

\* C22: the argument vector that start_configured stores for the stored
\* configuration is exactly the concatenation of the present options of the
\* table above, in that order, and the count stored is its length.
C22_TranslationOrder ==
    Translated =>
        /\ argv = PresentWords(OptionTable(config), 1)
        /\ argc = Len(argv)

C22_Witness ==
    /\ Translated
    /\ config = FullConfig
    /\ argv = << "x11vnc", "-display", ":0", "-auth", "/tmp/xauth",
                 "-rfbport", "5901", "-localhost", "-6", "-passwd", "secret",
                 "-viewonly", "-allow", "10.0.0.2", "-shared", "-forever",
                 "-once", "-wait", "50", "-noshm", "-noxdamage", "-wireframe",
                 "-nocursor", "-nobell", "-geometry", "800x600", "-clip",
                 "640x480+0+0", "-quiet" >>

\* The entries of vector v that are one of the words in S.
Occurrences(v, S) == Cardinality({ i \in DOMAIN v : v[i] \in S })

\* C23: a translated argument vector holds exactly one of -passwd,
\* -passwdfile and -nopw (-passwd whenever a password is present,
\* -passwdfile when only a password file is, -nopw when neither is) and
\* exactly one of -shared and -noshared.
C23_OnePasswordOneShared ==
    Translated =>
        /\ Occurrences(argv, {"-passwd", "-passwdfile", "-nopw"}) = 1
        /\ Occurrences(argv, {"-shared", "-noshared"}) = 1
        /\ Occurrences(argv, {"-passwd"}) = 1 <=> config.password # NULL
        /\ Occurrences(argv, {"-nopw"}) = 1 <=>
               (config.password = NULL /\ config.password_file = NULL)
        /\ Occurrences(argv, {"-shared"}) = 1 <=> config.shared

C23_Witness ==
    /\ Translated
    /\ config.password # NULL /\ config.password_file # NULL
    /\ ~config.shared
    /\ Occurrences(argv, {"-passwd"}) = 1
    /\ Occurrences(argv, {"-passwdfile"}) = 0
    /\ Occurrences(argv, {"-noshared"}) = 1

\* C28: a get_advanced_stats call on a running handle recomputes the cached
\* statistics only if more than 1000 ms have passed since they were last
\* computed; a call 1000 ms or less after that leaves the cache as it is
\* and returns it, whatever the live client count has become.
C28_StatsCachedForOneSecond ==
    [][ (running /\ last'.op = "get_advanced_stats")
        => /\ last'.ret = X11VNC_SUCCESS
           /\ stats_last_update' # stats_last_update
              => clock - stats_last_update > 1000
           /\ clock - stats_last_update <= 1000
              => /\ cached_stats' = cached_stats
                 /\ stats_last_update' = stats_last_update
                 /\ last'.out = cached_stats ]_vars

C28_Witness ==
    /\ last.op = "get_advanced_stats" /\ last.ret = X11VNC_SUCCESS
    /\ running
    /\ stats_last_update = TimeAtCreate + TickMs
    /\ clock - stats_last_update = 1000
    /\ client_count = 1
    /\ last.out.current_clients = 0
    /\ cached_stats.current_clients = 0

\* The operations whose emit_event feeds the simple sink, and those whose
\* emit_advanced_event feeds the typed sink.
SimpleOps == {"configure", "start_configured"}
TypedOps == {"inject_pointer", "inject_key", "set_clipboard"}

\* C24: each sink slot holds the one registration made last, and a sink is
\* invoked only as the function and context its slot holds at that time
\* (so never once the slot was cleared); a registration succeeds whatever
\* the state of the handle and leaves the other slot as it is.
C24_SinkSlots ==
    [][ /\ last'.op = "set_event_callback"
           => ( /\ last'.ret = X11VNC_SUCCESS
                /\ [cb |-> event_callback', ud |-> event_user_data']
                      \in Registrations
                /\ UNCHANGED << advanced_event_callback,
                                advanced_event_user_data >> )
        /\ last'.op = "set_advanced_event_callback"
           => ( /\ last'.ret = X11VNC_SUCCESS
                /\ [cb |-> advanced_event_callback',
                    ud |-> advanced_event_user_data']
                      \in AdvancedRegistrations
                /\ UNCHANGED << event_callback, event_user_data >> )
        /\ (last'.op \in SimpleOps /\ last'.ev # << >>)
           => ( /\ Len(last'.ev) = 1
                /\ event_callback # NULL
                /\ last'.ev[1].cb = event_callback
                /\ last'.ev[1].ud = event_user_data )
        /\ (last'.op \in TypedOps /\ last'.ev # << >>)
           => ( /\ Len(last'.ev) = 1
                /\ advanced_event_callback # NULL
                /\ last'.ev[1].cb = advanced_event_callback
                /\ last'.ev[1].ud = advanced_event_user_data ) ]_vars

\* C25: a configure() that succeeds marks the handle configured with a
\* configuration stored, and its emit_event delivers one Started event with
\* the message "Server configured" to the sink registered at that time,
\* nothing when none is.
ConfiguredEvent(f, u) ==
    [cb |-> f, ud |-> u, type |-> X11VNC_EVENT_STARTED,
     message |-> "Server configured"]

C25_ConfigureEvent ==
    /\ [][ (~running /\ CriticalSection("configure", "configure_emit"))
           => ( /\ \E t \in Threads :
                     pc[t] = "idle" /\ pc'[t] = "configure_emit"
                /\ configured' /\ config_valid'
                /\ config' \in Configs ) ]_vars
    /\ [][ \A t \in Threads :
             /\ (pc[t] = "configure_emit" /\ pc'[t] = "idle")
                => ( /\ event_callback = NULL
                     /\ last' = Returned("configure", X11VNC_SUCCESS, << >>) )
             /\ ( /\ pc[t] = "configure_call" /\ pc'[t] = "idle"
                  /\ event_callback = cbv[t] )
                => last' = Returned("configure", X11VNC_SUCCESS,
                        << ConfiguredEvent(event_callback, event_user_data) >>)
       ]_vars

C25_Witness ==
    /\ last.op = "configure" /\ last.ret = X11VNC_SUCCESS
    /\ Len(last.ev) = 1 /\ last.ev[1].cb = "on_event_b"
    /\ last.ev[1].ud = "ctx_b"
    /\ last.ev[1].message = "Server configured"
    /\ configured /\ config_valid /\ config = SecureConfig /\ ~running

C27_FieldsUnderMutex ==
    [][ \A t \in Threads :
          (EmitCheck(t) \/ EmitCall(t) \/ StopJoin(t)) => mutex = t ]_vars

\* The advanced operations that C29 names.
RunningOnlyOps ==
    { "get_clients", "disconnect_client", "set_client_permissions",
      "inject_pointer", "inject_key", "inject_text", "get_clipboard",
      "set_clipboard", "remote_control", "process_events", "update_screen",
      "set_bandwidth_limit" }

\* C29: an advanced operation called with valid arguments on a handle that
\* is not running returns NOT_RUNNING and changes no field of the handle.
C29_AdvancedWhenNotRunning ==
    [][ ( /\ ~running
          /\ last'.op \in RunningOnlyOps
          /\ last'.ret # X11VNC_ERROR_INVALID_ARG )
        => ( /\ last'.ret = X11VNC_ERROR_NOT_RUNNING
             /\ last'.ev = << >>
             /\ UNCHANGED handle ) ]_vars

\* C30: inject_pointer, inject_key and set_clipboard return without a
\* callback exactly when the handle is not running (NOT_RUNNING) or no
\* typed sink is registered (success); otherwise the typed sink runs while
\* the caller holds the mutex, and is invoked once, with its user data and
\* the kind InputReceived, InputReceived and ClipboardChanged; a call of
\* that callback into a locking operation of the handle never returns, nor
\* does the operation.
TypedEvent(o) ==
    [cb |-> advanced_event_callback, ud |-> advanced_event_user_data,
     type |-> IF o = "set_clipboard" THEN X11VNC_EVENT_CLIPBOARD_CHANGED
              ELSE X11VNC_EVENT_INPUT_RECEIVED,
     message |-> IF o = "set_clipboard" THEN "server" ELSE "injected"]

AdvancedOp_Call(o) ==
    CASE o = "inject_pointer" -> "inject_pointer_call"
      [] o = "inject_key" -> "inject_key_call"
      [] o = "set_clipboard" -> "set_clipboard_call"

C30_TypedCallbackUnderMutex ==
    /\ [][ \A t \in Threads :
             /\ (pc' = pc /\ last'.op \in TypedOps)
                => ( /\ ~running \/ advanced_event_callback = NULL
                     /\ last'.ev = << >>
                     /\ last'.ret = IF running THEN X11VNC_SUCCESS
                                    ELSE X11VNC_ERROR_NOT_RUNNING )
             /\ (pc[t] \in TypedCalls /\ pc'[t] # pc[t])
                => ( /\ reentry[t] = "none"
                     /\ \E o \in TypedOps :
                          /\ pc[t] = AdvancedOp_Call(o)
                          /\ last' = Returned(o, X11VNC_SUCCESS,
                                              << TypedEvent(o) >>) ) ]_vars
    /\ [] ( \A t \in Threads :
              pc[t] \in TypedCalls
              => ( /\ mutex = t /\ running /\ advanced_event_callback # NULL
                   /\ reentry[t] # "done"
                   /\ reentry[t] = "waiting"
                      => ~ENABLED (CallbackApiReturns(t) \/ AdvancedEmit(t))
                 ) )

C30_Witness ==
    /\ pc[1] = "set_clipboard_call" /\ reentry[1] = "waiting"
    /\ mutex = 1 /\ running
    /\ advanced_event_callback = "on_typed_b"

\* C21: while the handle is running no step changes the stored argument
\* vector or its count, whatever operation is called and whatever it
\* returns, up to and including the step in which run() clears the flag.
C21_ArgvFixedWhileRunning ==
    [][ running => UNCHANGED << argv, argc >> ]_vars

C21_Witness ==
    /\ last.op = "start_configured"
    /\ last.ret = X11VNC_ERROR_ALREADY_RUNNING
    /\ running /\ configured /\ config = HotConfig
    /\ argv = << "x11vnc", "-rfbport", "5901" >> /\ argc = 3


\* C31: the step in which a start makes the handle running leaves no
\* shutdown request pending: should_exit is false and the engine's
\* shut_down flag is 0, also when an earlier stop() had set them.
C31_StartClearsShutdown ==
    [][ (~running /\ running') => (~should_exit' /\ shut_down' = 0) ]_vars


\* C32: at most one thread is inside x11vnc_main_legacy at any time.
C32_OneThreadInEngine ==
    Cardinality({ t \in Threads : pc[t] = "run_engine" }) <= 1


\* C33: start_configured on a running handle returns in its critical
\* section, INVALID_ARG when the handle was never configured and
\* ALREADY_RUNNING when it was; argv, argc, running and should_exit stay as
\* they were and emit_event is not reached.
C33_StartConfiguredWhileRunning ==
    [][ (running /\ CriticalSection("start_configured",
                                    "start_configured_emit"))
        => ( /\ last' = Returned("start_configured",
                                 IF ~configured
                                 THEN X11VNC_ERROR_INVALID_ARG
                                 ELSE X11VNC_ERROR_ALREADY_RUNNING, << >>)
             /\ pc' = pc
             /\ UNCHANGED << argv, argc, running, should_exit >> ) ]_vars

C33_Witness ==
    /\ last.op = "start_configured"
    /\ last.ret = X11VNC_ERROR_INVALID_ARG
    /\ running /\ ~configured
    /\ argv = << "x11vnc", "-rfbport", "5901" >>
    /\ event_callback = "on_event_a"


\* What update_config leaves on a handle on which configure never
\* succeeded: the configuration stored, so that get_config returns it, and
\* the handle still not configured, so that start_configured returns
\* INVALID_ARG.
StoredNotConfigured ==
    /\ last'.ret = X11VNC_SUCCESS
    /\ config' \in UpdateConfigs
    /\ x11vnc_server_get_config(config', config_valid')
         = [ret |-> X11VNC_SUCCESS, out |-> config']
    /\ ~configured'
    /\ \A oom \in BOOLEAN :
         (x11vnc_server_start_configured(oom).ret)' = X11VNC_ERROR_INVALID_ARG

\* C34 as stated: update_config on a never-configured handle stores the
\* configuration, leaves the handle not configured, and writes false to
\* the restart_needed it is given.
C34_AsStated ==
    [][ (~configured /\ last'.op = "update_config")
        => ( /\ StoredNotConfigured
             /\ last'.out.restart_needed \in { << >>, << FALSE >> } ) ]_vars

\* C34 amended: update_config on a never-configured handle stores the
\* configuration and leaves the handle not configured; it writes false to
\* restart_needed when the handle holds no configuration yet, and the
\* outcome of the comparison with the stored one when an earlier
\* update_config left one.
C34_UpdateDoesNotConfigure ==
    [][ (~configured /\ last'.op = "update_config")
        => ( /\ StoredNotConfigured
             /\ last'.out.restart_needed
                  \in { << >>,
                        << config_valid
                           /\ RestartFields(config') # RestartFields(config)
                        >> } ) ]_vars

C34_Witness ==
    /\ last.op = "start_configured"
    /\ last.ret = X11VNC_ERROR_INVALID_ARG
    /\ ~configured /\ config_valid /\ config = HotConfig
    /\ ~running


\* C35: update_config on a Running handle leaves allow_list, use_dpy and
\* auth_file as they were where the configuration's allow_hosts, display
\* or auth_file is null; this holds of the step taken and of
\* apply_config_to_globals on every configuration that could be passed.
C35_NullFieldKeepsGlobal ==
    [][ /\ (running /\ last'.op = "update_config")
           => /\ config'.allow_hosts = NULL => allow_list' = allow_list
              /\ config'.display = NULL => use_dpy' = use_dpy
              /\ config'.auth_file = NULL => auth_file' = auth_file
        /\ \A c \in Configs \cup UpdateConfigs :
              /\ c.allow_hosts = NULL
                 => apply_config_to_globals(c).allow_list = allow_list
              /\ c.display = NULL
                 => apply_config_to_globals(c).use_dpy = use_dpy
              /\ c.auth_file = NULL
                 => apply_config_to_globals(c).auth_file = auth_file ]_vars

C35_Witness ==
    /\ last.op = "update_config" /\ last.ret = X11VNC_SUCCESS
    /\ running
    /\ config.allow_hosts = NULL /\ config.auth_file = NULL
    /\ allow_list = "10.0.0.1" /\ auth_file = "/root/.Xauthority"
    /\ use_dpy = ":0"


\* The pointers of the handle that a call returning r has assigned:
\* server->argv in start (whatever the copy returned) and in
\* start_configured, each char* of server->config in config_copy_strings.
Assigned(o, r) ==
    IF o = "start" /\ r \in {X11VNC_SUCCESS, X11VNC_ERROR_NO_MEMORY}
    THEN {"argv"}
    ELSE IF o = "start_configured" /\ r = X11VNC_SUCCESS
    THEN {"argv"}
    ELSE IF o \in {"configure", "update_config"} /\ r = X11VNC_SUCCESS
    THEN StringFields
    ELSE {}

\* The blocks of the handle that a call passes to free: only destroy has
\* any.
Released(o) == IF o = "destroy" THEN {"argv", "server"} ELSE {}

\* C36: a block the handle points to stays referenced or is released: a
\* call that assigns a pointer of the handle releases the block the pointer
\* referred to.
C36_ReplacedBlockReleased ==
    [][ /\ \A o \in {"start", "start_configured", "configure",
                     "update_config"} :
             (AllIdle /\ pc' = pc /\ last'.op = o)
             => (Assigned(o, last'.ret) \cap heap) \subseteq Released(o)
        /\ \A o \in SimpleOps :
             (\E t \in Threads :
                 /\ pc[t] = "idle"
                 /\ pc'[t] = IF o = "configure" THEN "configure_emit"
                             ELSE "start_configured_emit")
             => (Assigned(o, X11VNC_SUCCESS) \cap heap) \subseteq Released(o)
      ]_vars


\* The functions that can be registered as the simple sink.
SimpleSinks == { reg.cb : reg \in Registrations } \ {NULL}

\* C37: the simple sink is invoked only at the end of a successful
\* configure or start_configured, with an event of kind Started; a step
\* in which the handle leaves Running (the return of run) delivers nothing.
C37_SinkEventsOnlyStarted ==
    [][ /\ (last'.ev # << >> /\ last'.ev[1].cb \in SimpleSinks)
           => /\ last'.op \in SimpleOps
              /\ last'.ret = X11VNC_SUCCESS
              /\ last'.ev[1].type = X11VNC_EVENT_STARTED
              /\ \E t \in Threads :
                    /\ pc[t] \in {"configure_call", "start_configured_call"}
                    /\ pc'[t] = "idle"
        /\ (last'.op \in {"start", "run", "stop", "update_config",
                          "destroy"})
           => last'.ev = << >>
        /\ (running /\ ~running') => last'.ev = << >> ]_vars

C37_Witness ==
    /\ last.op = "start_configured"
    /\ running
    /\ last.ev = << [cb |-> "on_event_a", ud |-> "ctx_a",
                     type |-> X11VNC_EVENT_STARTED,
                     message |-> "Server started with configuration"] >>


\* C38: the function and the user context of every invocation of the
\* simple sink are those of one registration, and the function invoked is
\* not null.
C38_PairFromOneRegistration ==
    (last.op \in SimpleOps /\ last.ev # << >>)
    => /\ last.ev[1].cb # NULL
       /\ [cb |-> last.ev[1].cb, ud |-> last.ev[1].ud] \in Registrations


\* C39: a thread that is not inside an operation does not hold the mutex,
\* so the mutex is free whenever no operation is in progress; whoever
\* holds it is inside the callback of a typed operation.
C39_MutexReleasedOnReturn ==
    /\ \A t \in Threads : pc[t] = "idle" => mutex # t
    /\ AllIdle => mutex = 0
    /\ mutex # 0 => (mutex \in Threads /\ pc[mutex] \in TypedCalls)

C39_Witness ==
    /\ last.op = "get_clipboard"
    /\ last.ret = X11VNC_ERROR_NO_MEMORY
    /\ running /\ AllIdle /\ mutex = 0


\* FullConfig with up to two fields changed.
NearFullConfigs ==
    LET one == { Changes(FullConfig)[i] : i \in DOMAIN Changes(FullConfig) }
    IN { Changes(c)[j] : c \in one, j \in DOMAIN Changes(FullConfig) }
       \cup one

\* C40: config_to_argv writes at most 29 entries, fewer than the max_args
\* slots of its array (so a null slot follows the last entry): of the
\* vector a start_configured has stored, and of the translation of every
\* configuration that could be given.
C40_ArgvWithinCapacity ==
    Translated
    => /\ argc = Len(argv)
       /\ argc <= 29
       /\ argc + 1 <= max_args
       /\ \A c \in TranslateConfigs \cup NearFullConfigs :
            /\ Len(config_to_argv(c)) <= 29
            /\ Len(config_to_argv(c)) + 1 <= max_args

C40_Witness ==
    /\ Translated
    /\ config = FullConfig
    /\ argc = 29 /\ Len(argv) = 29
    /\ argv[29] = "-quiet"

=============================================================================
